---- MODULE Spec2Model ----
(***************************************************************************)
(* Model of the lesson content renderer of App.tsx (function TopicBlocks): *)
(* the Sectionizer loop with its heading classifiers, the per-line Python  *)
(* tokenizer/highlighter, inline code, colour tables and code blocks; of   *)
(* normalize, sortCourses and filterCourses; and of the hash routing of    *)
(* the App (parseHash, the selection effect, the navigation handlers).     *)
(*                                                                         *)
(* Strings are sequences of characters; a character is a one-element       *)
(* label ("a", "1", "#", ...).  Indices of the JavaScript helpers          *)
(* (indexOf, slice) are kept 0-based as in the source.                     *)
(***************************************************************************)
EXTENDS Integers, Sequences, FiniteSets

VARIABLES
  blocks,     \* props.blocks: the input block sequence of TopicBlocks
  isArray,    \* Array.isArray(props.blocks): FALSE when the property is absent
  bi,         \* position of blocks.forEach (1-based index of the next block)
  sections,   \* const sections: { title, blocks }[]
  current,    \* let current: 0 = null, else the index in sections it aliases
  view,       \* what TopicBlocks returns: "pending" until it returns
  pc,         \* position of TopicBlocks: "idle" | "start" | "loop" | "done" | "null" | "rendered"
  line,       \* argument of tokenizePythonLine
  ti,         \* loop index i of the comment boundary scan (0-based)
  inSingle,   \* let inSingle
  inDouble,   \* let inDouble
  escaped,    \* let escaped
  commentAt,  \* let commentAt (-1 = none)
  lexPos,     \* lastIndex of the matchAll iteration over codePart (0-based)
  tokens,     \* const tokens: the lexemes matched so far
  rendered,   \* const rendered: the classified spans [text, kind]
  tpc,        \* position of tokenizePythonLine: "idle" | "scan" | "lex" | "map" | "comment" | "done"
  raw,        \* RichText: const raw
  nodes,      \* RichText: the children of the returned span, [tag, text]
  rpc,        \* position of RichText: "idle" | "start" | "done"
  str,        \* argument of normalize
  normOut,    \* value returned by normalize
  npc,        \* position of normalize: "idle" | "start" | "done"
  headers,    \* b.headers of a table block
  rows,       \* b.rows of a table block
  cells,      \* the td elements rendered for the rows, [className, text, rich]
  tbpc,       \* position of the table branch of renderBlock: "idle" | "start" | "done"
  list,       \* argument of sortCourses
  sorted,     \* value returned by sortCourses
  spc,        \* position of sortCourses: "idle" | "start" | "done"
  cbText,     \* p.text of CodeBlock
  lines,      \* CodeBlock: const lines
  li,         \* index idx of lines.map (1-based index of the next line)
  lineSpans,  \* what tokenizePythonLine returned for the lines mapped so far
  cpc,        \* position of CodeBlock: "idle" | "start" | "map" | "done"
  keywords,   \* the Set PY_KEYWORDS holds
  builtins,   \* the Set PY_BUILTINS holds
  again,      \* the lesson has been displayed once and is being displayed again
  courses,    \* filterCourses: the list it is given
  query,      \* filterCourses: the search text
  cycle,      \* filterCourses: the selected cycle, "all" included
  filtered,   \* value returned by filterCourses
  fpc,        \* position of filterCourses: "idle" | "start" | "done"
  location,   \* window.location.hash
  hashEvent,  \* a hashchange event is waiting for its listener
  hash,       \* useHashRouting: the state hash; the argument of parseHash
  parsed,     \* const parsed = parseHash(routing.hash), as of the last render
  selectedCourseId,  \* App state, <<>> for null
  selectedTopicId,   \* App state, <<>> for null
  scrolledTo, \* the topic whose index card scrollIntoView was last called on
  apc         \* position of the App: "idle" | "start" | "done" (parseHash alone) | "app"

sectVars  == <<blocks, isArray, bi, sections, current, view, pc>>
tokVars   == <<line, ti, inSingle, inDouble, escaped, commentAt, lexPos, tokens, rendered, tpc>>
pureVars  == <<raw, nodes, rpc, str, normOut, npc, headers, rows, cells, tbpc,
               list, sorted, spc>>
codeVars  == <<cbText, lines, li, lineSpans, cpc, keywords, builtins, again>>
appVars   == <<courses, query, cycle, filtered, fpc, location, hashEvent, hash, parsed,
               selectedCourseId, selectedTopicId, scrolledTo, apc>>
vars      == <<sectVars, tokVars, pureVars, codeVars, appVars>>

\* everything outside TopicBlocks' loop, and everything outside tokenizePythonLine
notSect == <<tokVars, pureVars, codeVars, appVars>>
notTok  == <<sectVars, pureVars, codeVars, appVars>>

----------------------------------------------------------------------------
(* Bounds of the model *)

MaxBlocks == 3    \* longest block sequence handed to the Sectionizer
MaxSuffix == 3    \* longest generated tail of a probed heading text
MaxFrags  == 3    \* most fragments concatenated into a generated code line
MaxNorm   == 3    \* longest generated text handed to normalize
MaxRows   == 2    \* most rows of a generated table
MaxCourses == 3   \* longest course list handed to sortCourses
MaxCode   == 3    \* longest generated text of a code block
MaxRaw    == 6    \* longest generated text handed to RichText
MaxFilter == 2    \* longest course list handed to filterCourses
MaxSegs   == 4    \* most segments of a generated location hash

----------------------------------------------------------------------------
(* Characters *)

Digits == {"0", "1", "2", "3", "4", "5", "6", "7", "8", "9"}

LowerLetters == <<"a", "b", "c", "d", "e", "f", "g", "h", "i", "j", "k", "l", "m",
                  "n", "o", "p", "q", "r", "s", "t", "u", "v", "w", "x", "y", "z">>

UpperLetters == <<"A", "B", "C", "D", "E", "F", "G", "H", "I", "J", "K", "L", "M",
                  "N", "O", "P", "Q", "R", "S", "T", "U", "V", "W", "X", "Y", "Z">>

Range(f) == {f[i] : i \in DOMAIN f}

\* U+2028 LINE SEPARATOR: white space and a line terminator of ECMAScript
LS == "U+2028"

\* the characters String.prototype.trim removes and \s matches
WhiteSpace == {" ", "\t", "\n", "\r", LS}

\* the characters "." of a regular expression without the s flag does not match
LineTerminators == {"\n", "\r", LS}

IsDigit(ch) == ch \in Digits

\* \w without the u or i flag: [A-Za-z0-9_]
IsWordChar(ch) == ch \in Range(LowerLetters) \cup Range(UpperLetters) \cup Digits \cup {"_"}

\* [A-Za-z_]
IsIdentStart(ch) == ch \in Range(LowerLetters) \cup Range(UpperLetters) \cup {"_"}

IsSpace(ch) == ch \in WhiteSpace

----------------------------------------------------------------------------
(* String helpers of the JavaScript runtime, as the code uses them *)

Min(S) == CHOOSE x \in S : \A y \in S : x <= y
Max(S) == CHOOSE x \in S : \A y \in S : x >= y

\* String.prototype.trim
Trim(s) ==
  LET keep == {i \in 1..Len(s) : ~IsSpace(s[i])}
  IN IF keep = {} THEN <<>> ELSE SubSeq(s, Min(keep), Max(keep))

\* the accented letters of Spanish, precomposed (a, e, i, o, u with acute,
\* n with tilde, u with diaeresis): each with its capital, its base letter
\* and its combining mark
Accents ==
  { [lower |-> "U+00E1", upper |-> "U+00C1", base |-> "a", mark |-> "U+0301"],
    [lower |-> "U+00E9", upper |-> "U+00C9", base |-> "e", mark |-> "U+0301"],
    [lower |-> "U+00ED", upper |-> "U+00CD", base |-> "i", mark |-> "U+0301"],
    [lower |-> "U+00F3", upper |-> "U+00D3", base |-> "o", mark |-> "U+0301"],
    [lower |-> "U+00FA", upper |-> "U+00DA", base |-> "u", mark |-> "U+0301"],
    [lower |-> "U+00F1", upper |-> "U+00D1", base |-> "n", mark |-> "U+0303"],
    [lower |-> "U+00FC", upper |-> "U+00DC", base |-> "u", mark |-> "U+0308"] }

\* String.prototype.toLowerCase on the letters of the model's alphabet
LowerChar(ch) ==
  IF ch \in Range(UpperLetters)
  THEN LowerLetters[CHOOSE i \in 1..26 : UpperLetters[i] = ch]
  ELSE IF \E a \in Accents : a.upper = ch
  THEN (CHOOSE a \in Accents : a.upper = ch).lower
  ELSE ch

ToLowerCase(s) == [i \in 1..Len(s) |-> LowerChar(s[i])]

\* s.indexOf(ch, from): 0-based index of the first ch at or after from, or -1
IndexOf(s, ch, from) ==
  LET hits == {i \in from..(Len(s) - 1) : s[i + 1] = ch}
  IN IF hits = {} THEN -1 ELSE Min(hits)

\* s.slice(a, b) for 0 <= a, b
Slice(s, a, b) ==
  LET e == IF b > Len(s) THEN Len(s) ELSE b
  IN IF a >= e THEN <<>> ELSE SubSeq(s, a + 1, e)

\* s.slice(a)
SliceFrom(s, a) == Slice(s, a, Len(s))

\* s.startsWith(p)
StartsWith(s, p) == Len(s) >= Len(p) /\ SubSeq(s, 1, Len(p)) = p

AllDigits(s) == \A i \in 1..Len(s) : IsDigit(s[i])

----------------------------------------------------------------------------
(* Heading classifiers *)

Ejercicio == <<"e", "j", "e", "r", "c", "i", "c", "i", "o">>

\* one dot is enough: the second indexOf and its guard are dropped
isSubHeadingOneDot(t) ==
  LET s  == Trim(t)
      d1 == IndexOf(s, ".", 0)
      a  == Slice(s, 0, d1)
      b  == SliceFrom(s, d1 + 1)
  IN d1 > 0 /\ a # <<>> /\ b # <<>> /\ AllDigits(a) /\ IsDigit(b[1])

\* the loop over b is dropped: only a is tested for digits
isSubHeadingFirstRunOnly(t) ==
  LET s  == Trim(t)
      d1 == IndexOf(s, ".", 0)
      d2 == IndexOf(s, ".", d1 + 1)
      a  == Slice(s, 0, d1)
      b  == Slice(s, d1 + 1, d2)
  IN IF d1 <= 0 THEN FALSE
     ELSE IF d2 <= d1 + 1 THEN FALSE
     ELSE IF a = <<>> \/ b = <<>> THEN FALSE
     ELSE AllDigits(a)

\* isSubHeading of lines 760-778
isSubHeading(t) ==
  LET s  == Trim(t)
      d1 == IndexOf(s, ".", 0)
      d2 == IndexOf(s, ".", d1 + 1)
      a  == Slice(s, 0, d1)
      b  == Slice(s, d1 + 1, d2)
  IN IF d1 <= 0 THEN FALSE
     ELSE IF d2 <= d1 + 1 THEN FALSE
     ELSE IF a = <<>> \/ b = <<>> THEN FALSE
     ELSE AllDigits(a) /\ AllDigits(b)

\* the rest is not trimmed before its first character is tested
isExerciseHeadingNoTrim(t) ==
  LET s    == ToLowerCase(Trim(t))
      rest == SliceFrom(s, Len(Ejercicio))
  IN StartsWith(s, Ejercicio) /\ rest # <<>> /\ IsDigit(rest[1])

isExerciseHeading(t) ==
  LET s    == ToLowerCase(Trim(t))
      rest == Trim(SliceFrom(s, Len(Ejercicio)))
  IN IF ~StartsWith(s, Ejercicio) THEN FALSE
     ELSE rest # <<>> /\ IsDigit(rest[1])

----------------------------------------------------------------------------
(* Content blocks.  Every block is modelled as [type, text]; the element   *)
(* NullBlock stands for a null or undefined entry of the array (!b).       *)

NullBlock == [type |-> "null", text |-> <<>>]

Heading(t) == [type |-> "h", text |-> t]

IsNullBlock(b) == b.type = "null"

IsHeadingBlock(b) == b.type = "h"

\* the test of line 794 on a heading block
IsSubHeadingBlock(b) ==
  LET t == Trim(b.text)
  IN isSubHeading(t) \/ isExerciseHeading(t)

----------------------------------------------------------------------------
(* Tokenizer: the vocabularies new Set([...]) of lines 607 and 642 *)

PY_KEYWORDS ==
  { <<"a", "s">>, <<"a", "s", "s", "e", "r", "t">>,
    <<"b", "r", "e", "a", "k">>, <<"c", "l", "a", "s", "s">>,
    <<"c", "o", "n", "t", "i", "n", "u", "e">>, <<"d", "e", "f">>,
    <<"d", "e", "l">>, <<"e", "l", "i", "f">>, <<"e", "l", "s", "e">>,
    <<"e", "x", "c", "e", "p", "t">>, <<"F", "a", "l", "s", "e">>,
    <<"f", "i", "n", "a", "l", "l", "y">>, <<"f", "o", "r">>,
    <<"f", "r", "o", "m">>, <<"g", "l", "o", "b", "a", "l">>, <<"i", "f">>,
    <<"i", "m", "p", "o", "r", "t">>, <<"i", "n">>, <<"i", "s">>,
    <<"l", "a", "m", "b", "d", "a">>, <<"N", "o", "n", "e">>,
    <<"n", "o", "n", "l", "o", "c", "a", "l">>, <<"n", "o", "t">>,
    <<"o", "r">>, <<"p", "a", "s", "s">>, <<"r", "a", "i", "s", "e">>,
    <<"r", "e", "t", "u", "r", "n">>, <<"T", "r", "u", "e">>,
    <<"t", "r", "y">>, <<"w", "h", "i", "l", "e">>, <<"w", "i", "t", "h">>,
    <<"y", "i", "e", "l", "d">> }

PY_BUILTINS ==
  { <<"p", "r", "i", "n", "t">>, <<"l", "e", "n">>,
    <<"r", "a", "n", "g", "e">>, <<"i", "n", "t">>,
    <<"f", "l", "o", "a", "t">>, <<"s", "t", "r">>, <<"l", "i", "s", "t">>,
    <<"d", "i", "c", "t">>, <<"s", "e", "t">>, <<"t", "u", "p", "l", "e">>,
    <<"i", "n", "p", "u", "t">>, <<"t", "y", "p", "e">>,
    <<"h", "e", "l", "p">>, <<"s", "u", "m">> }

----------------------------------------------------------------------------
(* Sectionizer: the blocks.forEach loop of TopicBlocks *)

AnonymousSection == [title |-> <<>>, blocks |-> <<>>]

\* the heading is also kept as the first block of the section it starts
StartSectionKeepHeading(b) == [title |-> b.text, blocks |-> <<b>>]

\* the section a heading starts gets no title
StartSectionUntitled(b) == [title |-> <<>>, blocks |-> <<>>]

\* current = { title: b.text, blocks: [] }
StartSection(b) == [title |-> b.text, blocks |-> <<>>]

\* a new anonymous section is opened for every block
EnsureCurrentAlways(secs, cur) == Append(secs, AnonymousSection)

\* if (!current) { current = { title: "", blocks: [] }; sections.push(current); }
EnsureCurrent(secs, cur) ==
  IF cur = 0 THEN Append(secs, AnonymousSection) ELSE secs

\* the block replaces the section's block list instead of being appended
PushBlockReplace(secs, b) == [secs EXCEPT ![Len(secs)].blocks = <<b>>]

\* current.blocks.push(b): current aliases the section pushed last
PushBlock(secs, b) == [secs EXCEPT ![Len(secs)].blocks = Append(@, b)]

\* what TopicBlocks returns is null or <div className="space-y-5"> with one
\* Card per section; until it returns the root is "pending"
NullView == [root |-> "null", cards |-> <<>>]

\* only an absent block sequence returns null; an empty array is rendered
ReturnsNullOnlyAbsent(bs, arr) == ~arr

\* !Array.isArray(blocks) || blocks.length === 0
ReturnsNull(bs, arr) == ~arr \/ Len(bs) = 0

\* sections and current outlive the call: they are not set up again
TopicBlocksEnterKeepsSections ==
  /\ pc = "start"
  /\ pc' = IF ReturnsNull(blocks, isArray) THEN "null" ELSE "loop"
  /\ view' = IF ReturnsNull(blocks, isArray) THEN NullView ELSE view
  /\ bi' = 1
  /\ UNCHANGED <<blocks, isArray, sections, current, notSect>>

\* if (!Array.isArray(blocks) || blocks.length === 0) return null;
TopicBlocksEnter ==
  /\ pc = "start"
  /\ pc' = IF ReturnsNull(blocks, isArray) THEN "null" ELSE "loop"
  /\ view' = IF ReturnsNull(blocks, isArray) THEN NullView ELSE view
  /\ bi' = 1
  /\ sections' = <<>>
  /\ current' = 0
  /\ UNCHANGED <<blocks, isArray, notSect>>

\* if (!b) return;
StepNull ==
  /\ pc = "loop" /\ bi <= Len(blocks)
  /\ IsNullBlock(blocks[bi])
  /\ bi' = bi + 1
  /\ UNCHANGED <<blocks, isArray, view, sections, current, pc, notSect>>

\* b.type === "h" and isSubHeading(t) || isExerciseHeading(t)
StepSubHeading ==
  /\ pc = "loop" /\ bi <= Len(blocks)
  /\ ~IsNullBlock(blocks[bi])
  /\ IsHeadingBlock(blocks[bi]) /\ IsSubHeadingBlock(blocks[bi])
  /\ sections' = PushBlock(EnsureCurrent(sections, current), blocks[bi])
  /\ current' = Len(sections')
  /\ bi' = bi + 1
  /\ UNCHANGED <<blocks, isArray, view, pc, notSect>>

\* b.type === "h", any other heading
StepTopHeading ==
  /\ pc = "loop" /\ bi <= Len(blocks)
  /\ ~IsNullBlock(blocks[bi])
  /\ IsHeadingBlock(blocks[bi]) /\ ~IsSubHeadingBlock(blocks[bi])
  /\ sections' = Append(sections, StartSection(blocks[bi]))
  /\ current' = Len(sections')
  /\ bi' = bi + 1
  /\ UNCHANGED <<blocks, isArray, view, pc, notSect>>

\* any block that is not a heading
StepOther ==
  /\ pc = "loop" /\ bi <= Len(blocks)
  /\ ~IsNullBlock(blocks[bi])
  /\ ~IsHeadingBlock(blocks[bi])
  /\ sections' = PushBlock(EnsureCurrent(sections, current), blocks[bi])
  /\ current' = Len(sections')
  /\ bi' = bi + 1
  /\ UNCHANGED <<blocks, isArray, view, pc, notSect>>

\* forEach has visited every element
ForEachEnd ==
  /\ pc = "loop" /\ bi > Len(blocks)
  /\ pc' = "done"
  /\ UNCHANGED <<blocks, isArray, view, bi, sections, current, notSect>>

\* the block variants renderBlock has a branch for
KnownTypes == {"h", "p", "ul", "ol", "code", "callout", "table", "img"}

\* the element renderBlock returns for null
NoElement == [el |-> "null", key |-> 0, text |-> <<>>]

\* a block of an unknown variant is rendered as a paragraph
renderBlockUnknownAsParagraph(b, idx) ==
  IF IsNullBlock(b) THEN NoElement
  ELSE IF b.type \in KnownTypes
       THEN [el |-> IF b.type = "h" THEN "sh" ELSE b.type, key |-> idx, text |-> b.text]
       ELSE [el |-> "p", key |-> idx, text |-> b.text]

\* renderBlock: if (!b) return null; one branch per known type, its element
\* named by the prefix of its key ("sh-" for a heading, else the type); return null
renderBlock(b, idx) ==
  IF IsNullBlock(b) THEN NoElement
  ELSE IF b.type \in KnownTypes
       THEN [el |-> IF b.type = "h" THEN "sh" ELSE b.type, key |-> idx, text |-> b.text]
       ELSE NoElement

\* <Card key={"sec-" + i}>: the title when it is not empty, and
\* sec.blocks.map((b, idx) => renderBlock(b, i * 1000 + idx)), i and idx 0-based
Card(sec, i) ==
  [ title    |-> sec.title,
    hasTitle |-> sec.title # <<>>,
    children |-> [idx \in 1..Len(sec.blocks) |->
                    renderBlock(sec.blocks[idx], (i - 1) * 1000 + (idx - 1))] ]

\* return <div className="space-y-5">{sections.map(...)}</div>
TopicBlocksReturn ==
  /\ pc = "done"
  /\ pc' = "rendered"
  /\ view' = [root |-> "div", cards |-> [i \in 1..Len(sections) |-> Card(sections[i], i)]]
  /\ UNCHANGED <<blocks, isArray, bi, sections, current, notSect>>

\* the sections the forEach loop leaves, as a function of the block sequence:
\* the blocks from position k on are visited with sections secs and current cur
RECURSIVE SectionsAfter(_, _, _, _)
SectionsAfter(bs, k, secs, cur) ==
  IF k > Len(bs) THEN secs
  ELSE IF IsNullBlock(bs[k]) THEN SectionsAfter(bs, k + 1, secs, cur)
  ELSE IF IsHeadingBlock(bs[k]) /\ ~IsSubHeadingBlock(bs[k])
  THEN SectionsAfter(bs, k + 1, Append(secs, StartSection(bs[k])), Len(secs) + 1)
  ELSE SectionsAfter(bs, k + 1, PushBlock(EnsureCurrent(secs, cur), bs[k]),
                     Len(EnsureCurrent(secs, cur)))

NextSect ==
  \/ TopicBlocksEnter
  \/ StepNull
  \/ StepSubHeading
  \/ StepTopHeading
  \/ StepOther
  \/ ForEachEnd
  \/ TopicBlocksReturn

----------------------------------------------------------------------------
(* Inputs of the Sectionizer *)

\* the sequences over S of length at most n
SeqsUpTo(S, n) == UNION {[1..k -> S] : k \in 0..n}

TextTema        == <<"T", "e", "m", "a", " ", "4">>
TextSub         == <<"4", ".", "1", ".", " ", "S">>
TextEjercicio1  == <<"E", "j", "e", "r", "c", "i", "c", "i", "o", " ", "1">>

\* a small pool of blocks: two top-level headings (one with an empty text),
\* two sub-headings, a paragraph, a code block, a block of an unknown type,
\* a null entry
BlockPool ==
  { Heading(TextTema), Heading(<<>>), Heading(TextSub), Heading(TextEjercicio1),
    [type |-> "p", text |-> <<"x">>],
    [type |-> "code", text |-> <<"z">>],
    [type |-> "unknown", text |-> <<"y">>],
    NullBlock }

\* heading texts probed: a prefix followed by every short tail over TailChars
TailChars == {" ", "1", ".", "s"}

HeadPrefixes ==
  { <<>>,
    <<"4">>, <<"4", ".">>, <<"4", ".", "2">>, <<" ", "4", "0", ".", "5">>,
    <<"x", "4", ".", "2">>,
    Ejercicio,
    <<"E", "j", "e", "r", "c", "i", "c", "i", "o">>,
    <<"\t", "E", "J", "E", "R", "C", "I", "C", "I", "O">>,
    <<"e", "j", "e", "r", "c", "i", "c", "i">>,
    <<"T", "e", "m", "a">> }

\* the headings the specification and the lesson data name
ExampleTexts ==
  { <<"4", "0", ".", "5">>,
    <<"4", ".", "2", " ", "S", "o", "m", "e", "t", "h", "i", "n", "g">>,
    <<"4", ".", "1", ".", " ", "S", "h", "e", "l", "l">>,
    <<"1", ".", " ", "U+00BF", "Q", "u", "U+00E9">>,
    <<"E", "j", "e", "r", "c", "i", "c", "i", "o", " ", "1", " ", "U+00B7", " ", "S">>,
    <<"E", "j", "e", "r", "c", "i", "c", "i", "o", "s">>,
    TextTema }

HeadTexts ==
  {p \o t : p \in HeadPrefixes, t \in SeqsUpTo(TailChars, MaxSuffix)} \cup ExampleTexts

\* a probed heading alone, after a paragraph, and after a top-level heading
ProbeInputs ==
  UNION { { <<Heading(t)>>,
            <<[type |-> "p", text |-> <<"x">>], Heading(t)>>,
            <<Heading(TextTema), Heading(t)>> } : t \in HeadTexts }

SectInputs == SeqsUpTo(BlockPool, MaxBlocks) \cup ProbeInputs

TokIdle ==
  /\ line = <<>> /\ ti = 0 /\ inSingle = FALSE /\ inDouble = FALSE /\ escaped = FALSE
  /\ commentAt = -1 /\ lexPos = 0 /\ tokens = <<>> /\ rendered = <<>> /\ tpc = "idle"

SectIdle ==
  /\ blocks = <<>> /\ isArray = TRUE /\ bi = 0 /\ sections = <<>> /\ current = 0
  /\ view = [root |-> "pending", cards |-> <<>>] /\ pc = "idle"

\* RichText, normalize, the table branch, sortCourses and CodeBlock have
\* not been called, but for the one named; the vocabularies are as built
IdleExcept(c) ==
  /\ keywords = PY_KEYWORDS /\ builtins = PY_BUILTINS /\ again = FALSE
  /\ IF c = "rich" THEN TRUE ELSE raw = <<>> /\ nodes = <<>> /\ rpc = "idle"
  /\ IF c = "norm" THEN TRUE ELSE str = <<>> /\ normOut = <<>> /\ npc = "idle"
  /\ IF c = "table" THEN TRUE
     ELSE headers = <<>> /\ rows = <<>> /\ cells = <<>> /\ tbpc = "idle"
  /\ IF c = "sort" THEN TRUE ELSE list = <<>> /\ sorted = <<>> /\ spc = "idle"
  /\ IF c = "code" THEN TRUE
     ELSE cbText = <<>> /\ lines = <<>> /\ li = 0 /\ lineSpans = <<>> /\ cpc = "idle"
  /\ IF c = "filter" THEN TRUE
     ELSE courses = <<>> /\ query = <<>> /\ cycle = "all" /\ filtered = <<>> /\ fpc = "idle"
  /\ IF c = "app" THEN TRUE
     ELSE /\ location = <<>> /\ hashEvent = FALSE /\ hash = <<>>
          /\ parsed = [view |-> "none", courseId |-> <<>>, topicId |-> <<>>]
          /\ selectedCourseId = <<>> /\ selectedTopicId = <<>>
          /\ scrolledTo = <<>> /\ apc = "idle"

\* props.blocks is an array of SectInputs, or absent
InitSect ==
  /\ isArray \in BOOLEAN
  /\ blocks \in (IF isArray THEN SectInputs ELSE {<<>>})
  /\ bi = 0 /\ sections = <<>> /\ current = 0 /\ view = [root |-> "pending", cards |-> <<>>] /\ pc = "start"
  /\ TokIdle /\ IdleExcept("none")

SpecSect == InitSect /\ [][NextSect]_vars

----------------------------------------------------------------------------
(* The lexeme regular expression of line 687, alternative by alternative.  *)
(* Positions are 0-based; every operator returns the end (exclusive) of    *)
(* the match that starts at p, or -1 when the alternative fails there.     *)

DQ == "\""
SQ == "'"
BS == "\\"

CharAt(s, p) == s[p + 1]

\* \b between positions p - 1 and p
WordBoundary(s, p) ==
  LET before == p > 0 /\ IsWordChar(CharAt(s, p - 1))
      after  == p < Len(s) /\ IsWordChar(CharAt(s, p))
  IN before # after

\* \w* from p on: the end of the longest run of word characters
WordRunEnd(s, p) ==
  Min({q \in p..Len(s) : q = Len(s) \/ ~IsWordChar(CharAt(s, q))})

\* \d+ from p on: the end of the longest run of digits
DigitRunEnd(s, p) ==
  Min({q \in p..Len(s) : q = Len(s) \/ ~IsDigit(CharAt(s, q))})

\* \s+ from p on: the end of the longest run of white space
SpaceRunEnd(s, p) ==
  Min({q \in p..Len(s) : q = Len(s) \/ ~IsSpace(CharAt(s, q))})

RECURSIVE QuotedEnd(_, _, _)
\* ([^q\\]|\\.)*q from position i, the opening quote q already consumed
QuotedEnd(s, i, q) ==
  IF i >= Len(s) THEN -1
  ELSE IF CharAt(s, i) = q THEN i + 1
  ELSE IF CharAt(s, i) = BS
       THEN IF i + 1 < Len(s) /\ CharAt(s, i + 1) \notin LineTerminators
            THEN QuotedEnd(s, i + 2, q)
            ELSE -1
  ELSE QuotedEnd(s, i + 1, q)

\* "([^"\\]|\\.)*"  and  '([^'\\]|\\.)*'
MatchQuoted(s, p, q) ==
  IF CharAt(s, p) = q THEN QuotedEnd(s, p + 1, q) ELSE -1

\* \b[A-Za-z_]\w*\b
MatchIdent(s, p) ==
  IF IsIdentStart(CharAt(s, p)) /\ WordBoundary(s, p)
  THEN WordRunEnd(s, p)
  ELSE -1

\* the number without its optional fraction: \b\d+\b
MatchNumberNoFraction(s, p) ==
  IF ~(IsDigit(CharAt(s, p)) /\ WordBoundary(s, p)) THEN -1
  ELSE IF WordBoundary(s, DigitRunEnd(s, p)) THEN DigitRunEnd(s, p)
  ELSE -1

\* \b\d+(?:\.\d+)?\b
MatchNumber(s, p) ==
  IF ~(IsDigit(CharAt(s, p)) /\ WordBoundary(s, p)) THEN -1
  ELSE LET e1 == DigitRunEnd(s, p)
           frac == e1 + 1 < Len(s) /\ CharAt(s, e1) = "." /\ IsDigit(CharAt(s, e1 + 1))
           e2 == DigitRunEnd(s, e1 + 1)
       IN IF frac /\ WordBoundary(s, e2) THEN e2
          ELSE IF WordBoundary(s, e1) THEN e1
          ELSE -1

\* \s+
MatchSpace(s, p) ==
  IF IsSpace(CharAt(s, p)) THEN SpaceRunEnd(s, p) ELSE -1

\* .  (no s flag: any character but a line terminator)
MatchAny(s, p) ==
  IF CharAt(s, p) \notin LineTerminators THEN p + 1 ELSE -1

\* the alternation without its last alternative
MatchAtNoFallback(s, p) ==
  IF MatchQuoted(s, p, DQ) # -1 THEN MatchQuoted(s, p, DQ)
  ELSE IF MatchQuoted(s, p, SQ) # -1 THEN MatchQuoted(s, p, SQ)
  ELSE IF MatchIdent(s, p) # -1 THEN MatchIdent(s, p)
  ELSE IF MatchNumber(s, p) # -1 THEN MatchNumber(s, p)
  ELSE MatchSpace(s, p)

\* the whole alternation at p: the first alternative that matches decides
MatchAt(s, p) ==
  IF MatchQuoted(s, p, DQ) # -1 THEN MatchQuoted(s, p, DQ)
  ELSE IF MatchQuoted(s, p, SQ) # -1 THEN MatchQuoted(s, p, SQ)
  ELSE IF MatchIdent(s, p) # -1 THEN MatchIdent(s, p)
  ELSE IF MatchNumber(s, p) # -1 THEN MatchNumber(s, p)
  ELSE IF MatchSpace(s, p) # -1 THEN MatchSpace(s, p)
  ELSE MatchAny(s, p)

\* the positions at or after p where the expression matches (exec scans forward)
MatchStarts(s, p) == {q \in p..(Len(s) - 1) : MatchAt(s, q) # -1}

----------------------------------------------------------------------------
(* Classification of a lexeme: the callback of tokens.map, lines 690-719 *)

\* keywords and builtins are looked up without regard to case
KindIgnoringCase(t) ==
  IF t = <<>> THEN "null"
  ELSE IF Trim(t) = <<>> THEN "whitespace"
  ELSE IF t[1] = DQ \/ t[1] = SQ THEN "string"
  ELSE IF IsDigit(t[1]) THEN "number"
  ELSE IF \E k \in keywords : ToLowerCase(k) = ToLowerCase(t) THEN "keyword"
  ELSE IF \E k \in builtins : ToLowerCase(k) = ToLowerCase(t) THEN "builtin"
  ELSE "plain"

Kind(t) ==
  IF t = <<>> THEN "null"
  ELSE IF Trim(t) = <<>> THEN "whitespace"
  ELSE IF t[1] = DQ \/ t[1] = SQ THEN "string"
  ELSE IF IsDigit(t[1]) THEN "number"
  ELSE IF t \in keywords THEN "keyword"
  ELSE IF t \in builtins THEN "builtin"
  ELSE "plain"

Span(t, k) == [text |-> t, kind |-> k]

\* the comment starts one character late, after the '#'
CommentPartNoHash(l, at) == IF at = -1 THEN <<>> ELSE SliceFrom(l, at + 1)

\* const codePart = commentAt === -1 ? line : line.slice(0, commentAt);
CodePart(l, at) == IF at = -1 THEN l ELSE Slice(l, 0, at)

\* const commentPart = commentAt === -1 ? "" : line.slice(commentAt);
CommentPart(l, at) == IF at = -1 THEN <<>> ELSE SliceFrom(l, at)

----------------------------------------------------------------------------
(* tokenizePythonLine, pass 1: the comment boundary scan of lines 665-681 *)

Scanning == tpc = "scan" /\ ti < Len(line)

\* if (escaped) { escaped = false; continue; }
ScanEscaped ==
  /\ Scanning /\ escaped
  /\ escaped' = FALSE
  /\ ti' = ti + 1
  /\ UNCHANGED <<line, inSingle, inDouble, commentAt, lexPos, tokens, rendered, tpc, notTok>>

\* the backslash is passed over without setting escaped
ScanBackslashIgnored ==
  /\ Scanning /\ ~escaped /\ CharAt(line, ti) = BS
  /\ escaped' = FALSE
  /\ ti' = ti + 1
  /\ UNCHANGED <<line, inSingle, inDouble, commentAt, lexPos, tokens, rendered, tpc, notTok>>

\* if (ch === "\\") { escaped = true; continue; }
ScanBackslash ==
  /\ Scanning /\ ~escaped /\ CharAt(line, ti) = BS
  /\ escaped' = TRUE
  /\ ti' = ti + 1
  /\ UNCHANGED <<line, inSingle, inDouble, commentAt, lexPos, tokens, rendered, tpc, notTok>>

\* the single quote toggles its state inside a double-quoted run as well
ScanSingleQuoteAnywhere ==
  /\ Scanning /\ ~escaped /\ CharAt(line, ti) = SQ
  /\ inSingle' = ~inSingle
  /\ ti' = ti + 1
  /\ UNCHANGED <<line, inDouble, escaped, commentAt, lexPos, tokens, rendered, tpc, notTok>>

\* if (!inDouble && ch === "'") inSingle = !inSingle;
ScanSingleQuote ==
  /\ Scanning /\ ~escaped /\ CharAt(line, ti) # BS
  /\ ~inDouble /\ CharAt(line, ti) = SQ
  /\ inSingle' = ~inSingle
  /\ ti' = ti + 1
  /\ UNCHANGED <<line, inDouble, escaped, commentAt, lexPos, tokens, rendered, tpc, notTok>>

\* else if (!inSingle && ch === '"') inDouble = !inDouble;
ScanDoubleQuote ==
  /\ Scanning /\ ~escaped /\ CharAt(line, ti) # BS
  /\ ~(~inDouble /\ CharAt(line, ti) = SQ)
  /\ ~inSingle /\ CharAt(line, ti) = DQ
  /\ inDouble' = ~inDouble
  /\ ti' = ti + 1
  /\ UNCHANGED <<line, inSingle, escaped, commentAt, lexPos, tokens, rendered, tpc, notTok>>

\* else if (!inSingle && !inDouble && ch === "#") { commentAt = i; break; }
ScanHash ==
  /\ Scanning /\ ~escaped /\ CharAt(line, ti) # BS
  /\ ~(~inDouble /\ CharAt(line, ti) = SQ)
  /\ ~(~inSingle /\ CharAt(line, ti) = DQ)
  /\ ~inSingle /\ ~inDouble /\ CharAt(line, ti) = "#"
  /\ commentAt' = ti
  /\ tpc' = "lex"
  /\ UNCHANGED <<line, ti, inSingle, inDouble, escaped, lexPos, tokens, rendered, notTok>>

\* no branch applies: the character is passed over
ScanOther ==
  /\ Scanning /\ ~escaped /\ CharAt(line, ti) # BS
  /\ ~(~inDouble /\ CharAt(line, ti) = SQ)
  /\ ~(~inSingle /\ CharAt(line, ti) = DQ)
  /\ ~(~inSingle /\ ~inDouble /\ CharAt(line, ti) = "#")
  /\ ti' = ti + 1
  /\ UNCHANGED <<line, inSingle, inDouble, escaped, commentAt, lexPos, tokens, rendered, tpc, notTok>>

\* i < line.length fails: the loop ends without a comment
ScanEnd ==
  /\ tpc = "scan" /\ ti >= Len(line)
  /\ tpc' = "lex"
  /\ UNCHANGED <<line, ti, inSingle, inDouble, escaped, commentAt, lexPos, tokens, rendered, notTok>>

----------------------------------------------------------------------------
(* tokenizePythonLine, pass 2: matchAll over codePart, map, comment span *)

\* the next match of the iterator: the first position from lastIndex on where
\* the expression matches; the lexeme m[0] is collected
LexMatch ==
  /\ tpc = "lex"
  /\ MatchStarts(CodePart(line, commentAt), lexPos) # {}
  /\ LET code == CodePart(line, commentAt)
         from == Min(MatchStarts(code, lexPos))
         to   == MatchAt(code, from)
     IN /\ tokens' = Append(tokens, Slice(code, from, to))
        /\ lexPos' = to
  /\ UNCHANGED <<line, ti, inSingle, inDouble, escaped, commentAt, rendered, tpc, notTok>>

\* the iterator is exhausted
LexEnd ==
  /\ tpc = "lex"
  /\ MatchStarts(CodePart(line, commentAt), lexPos) = {}
  /\ tpc' = "map"
  /\ UNCHANGED <<line, ti, inSingle, inDouble, escaped, commentAt, lexPos, tokens, rendered, notTok>>

\* const rendered = tokens.map(...)
MapTokens ==
  /\ tpc = "map"
  /\ rendered' = [k \in 1..Len(tokens) |-> Span(tokens[k], Kind(tokens[k]))]
  /\ tpc' = "comment"
  /\ UNCHANGED <<line, ti, inSingle, inDouble, escaped, commentAt, lexPos, tokens, notTok>>

\* if (commentPart) rendered.push(<span key="c">{commentPart}</span>); return rendered;
PushComment ==
  /\ tpc = "comment"
  /\ CommentPart(line, commentAt) # <<>>
  /\ rendered' = Append(rendered, Span(CommentPart(line, commentAt), "comment"))
  /\ tpc' = "done"
  /\ UNCHANGED <<line, ti, inSingle, inDouble, escaped, commentAt, lexPos, tokens, notTok>>

\* commentPart is empty: return rendered;
ReturnRendered ==
  /\ tpc = "comment"
  /\ CommentPart(line, commentAt) = <<>>
  /\ tpc' = "done"
  /\ UNCHANGED <<line, ti, inSingle, inDouble, escaped, commentAt, lexPos, tokens, rendered, notTok>>

NextTok ==
  \/ ScanEscaped
  \/ ScanBackslash
  \/ ScanSingleQuote
  \/ ScanDoubleQuote
  \/ ScanHash
  \/ ScanOther
  \/ ScanEnd
  \/ LexMatch
  \/ LexEnd
  \/ MapTokens
  \/ PushComment
  \/ ReturnRendered

----------------------------------------------------------------------------
(* Inputs of the tokenizer *)

RECURSIVE Concat(_)
\* the concatenation of a sequence of strings
Concat(ss) == IF ss = <<>> THEN <<>> ELSE Head(ss) \o Concat(Tail(ss))

\* pieces a generated line is assembled from
Fragments ==
  { <<DQ>>, <<SQ>>, <<BS>>, <<"#">>, <<" ">>, <<"1">>, <<".">>,
    <<"i", "f">>, <<"p", "r", "i", "n", "t">> }

\* print("Hola, Python")
LinePrintHola ==
  <<"p", "r", "i", "n", "t", "(", DQ, "H", "o", "l", "a", ",", " ",
    "P", "y", "t", "h", "o", "n", DQ, ")">>

\* # comentario
LineComentario == <<"#", " ", "c", "o", "m", "e", "n", "t", "a", "r", "i", "o">>

\* x = "it's"
LineIts == <<"x", " ", "=", " ", DQ, "i", "t", SQ, "s", DQ>>

\* lines of the lesson data and lines with characters outside the fragments
ExampleLines ==
  { LinePrintHola, LineComentario, LineIts,
    <<"t", "r", "u", "e">>, <<"T", "r", "u", "e">>, <<"I", "f">>, <<"P", "r", "i", "n", "t">>,
    <<"x", " ", "=", " ", SQ, "a", BS, SQ, "b", SQ, " ", "#", "c">>,
    <<"e", "d", "a", "d", " ", "=", " ", "1", "8">>,
    <<"x", " ", "=", " ", DQ, "a", "b", " ", "#", " ", "c">>,
    <<BS, LS, "a">>, <<DQ, BS, LS, DQ>>, <<"a", LS, "\t", "1", ".", "5", "a">>,
    <<"q", "u", "U+00E9", "_", "1">>,
    <<DQ, "#", DQ, " ", "#", "c">>, <<DQ, SQ, DQ, " ", "#">>, <<SQ, DQ, "#", SQ, "#", DQ>>,
    <<DQ, BS, DQ, "#", DQ, "#">>, <<"2", "i", "f">>, <<"x", "=", DQ, "a", " ", "b">>,
    <<"1", ".", "5">>, <<"x", "=", SQ, "a", DQ, "b", SQ>> }

LineInputs ==
  {Concat(fs) : fs \in SeqsUpTo(Fragments, MaxFrags)} \cup ExampleLines

InitTok ==
  /\ line \in LineInputs
  /\ ti = 0 /\ inSingle = FALSE /\ inDouble = FALSE /\ escaped = FALSE
  /\ commentAt = -1 /\ lexPos = 0 /\ tokens = <<>> /\ rendered = <<>> /\ tpc = "scan"
  /\ SectIdle /\ IdleExcept("none")

SpecTok == InitTok /\ [][NextTok]_vars

----------------------------------------------------------------------------
(* RichText: inline code between backticks *)

\* U+0060 GRAVE ACCENT, the backtick
BT == "U+0060"

\* a backtick with no closing one opens a code that runs to the end of s
InlineCodeEndUnclosed(s, q) ==
  LET close == IndexOf(s, BT, q + 1)
  IN IF q < Len(s) /\ CharAt(s, q) = BT /\ close > q + 1 THEN close + 1
     ELSE IF q + 1 < Len(s) /\ CharAt(s, q) = BT /\ close = -1 THEN Len(s) + 1
     ELSE -1

\* the match of /`([^`]+)`/ starting exactly at position q of s: the position
\* after the closing backtick, or -1 when there is none.  [^`]+ is greedy and
\* stops only at a backtick or at the end of s.
InlineCodeEnd(s, q) ==
  LET close == IndexOf(s, BT, q + 1)
  IN IF q < Len(s) /\ CharAt(s, q) = BT /\ close > q + 1 THEN close + 1 ELSE -1

\* split on the same pattern without its capture group: the code is dropped
RECURSIVE SplitInlineNoCapture(_, _, _)
SplitInlineNoCapture(s, p, q) ==
  IF q >= Len(s) THEN <<SliceFrom(s, p)>>
  ELSE LET e == InlineCodeEnd(s, q)
       IN IF e = -1 THEN SplitInlineNoCapture(s, p, q + 1)
          ELSE <<Slice(s, p, q)>> \o SplitInlineNoCapture(s, e, e)

\* raw.split(/`([^`]+)`/g) from the last split point p, searching from q:
\* the text before each match, then the captured group, then the rest
RECURSIVE SplitInline(_, _, _)
SplitInline(s, p, q) ==
  IF q >= Len(s) THEN <<SliceFrom(s, p)>>
  ELSE LET e == InlineCodeEnd(s, q)
       IN IF e = -1 THEN SplitInline(s, p, q + 1)
          ELSE <<Slice(s, p, q), Slice(s, q + 1, e - 1)>> \o SplitInline(s, e, e)

\* the parts of even index are the code elements
RichNodesEvenIsCode(text) ==
  LET parts == SplitInline(text, 0, 0)
  IN [k \in 1..Len(parts) |->
        [tag |-> IF (k - 1) % 2 = 0 THEN "code" ELSE "span", text |-> parts[k]]]

\* const parts = raw.split(...); parts.map((seg, i) => i % 2 === 1 ? <code> :
\* <span>), i the 0-based index of the part
RichNodes(text) ==
  LET parts == SplitInline(text, 0, 0)
  IN [k \in 1..Len(parts) |->
        [tag |-> IF (k - 1) % 2 = 1 THEN "code" ELSE "span", text |-> parts[k]]]

\* <RichText text={...} />
RichText ==
  /\ rpc = "start"
  /\ nodes' = RichNodes(raw)
  /\ rpc' = "done"
  /\ UNCHANGED <<raw, str, normOut, npc, headers, rows, cells, tbpc, list, sorted, spc,
                 sectVars, tokVars, codeVars, appVars>>

TextUsaIdle == <<"u", "s", "a", " ", BT, "I", "D", "L", "E", BT, " ", "y", " ",
                 "g", "u", "a", "r", "d", "a">>

RawInputs == SeqsUpTo({BT, "a", " ", "\n"}, MaxRaw) \cup {TextUsaIdle}

InitRich ==
  /\ raw \in RawInputs
  /\ nodes = <<>> /\ rpc = "start"
  /\ SectIdle /\ TokIdle /\ IdleExcept("rich")

SpecRich == InitRich /\ [][RichText]_vars

----------------------------------------------------------------------------
(* normalize: lower case, canonical decomposition, combining marks removed *)

\* the range of the test of line 84: 0x0300 and 0x036f
CombiningFirst == 768
CombiningLast  == 879

\* ch.codePointAt(0) of the characters of the model's alphabet that are not
\* ASCII; every ASCII character is below U+0080
CodePoint(ch) ==
  CASE ch = "U+0301" -> 769
    [] ch = "U+0303" -> 771
    [] ch = "U+0308" -> 776
    [] ch = "U+20D7" -> 8407
    [] ch = LS       -> 8232
    [] ch = "U+00BF" -> 191
    [] ch = "U+00B7" -> 183
    [] ch = "U+00C1" -> 193  [] ch = "U+00C9" -> 201  [] ch = "U+00CD" -> 205
    [] ch = "U+00D3" -> 211  [] ch = "U+00DA" -> 218  [] ch = "U+00D1" -> 209
    [] ch = "U+00DC" -> 220
    [] ch = "U+00E1" -> 225  [] ch = "U+00E9" -> 233  [] ch = "U+00ED" -> 237
    [] ch = "U+00F3" -> 243  [] ch = "U+00FA" -> 250  [] ch = "U+00F1" -> 241
    [] ch = "U+00FC" -> 252
    [] ch \in Range(LowerLetters) -> 96 + (CHOOSE i \in 1..26 : LowerLetters[i] = ch)
    [] ch \in Range(UpperLetters) -> 64 + (CHOOSE i \in 1..26 : UpperLetters[i] = ch)
    [] OTHER -> 32

\* the canonical decomposition of one character: a precomposed accented
\* letter is its base letter followed by its combining mark
Decompose(ch) ==
  IF \E a \in Accents : a.lower = ch
  THEN LET a == CHOOSE x \in Accents : x.lower = ch IN <<a.base, a.mark>>
  ELSE IF \E a \in Accents : a.upper = ch
  THEN LET a == CHOOSE x \in Accents : x.upper = ch
       IN <<UpperLetters[CHOOSE j \in 1..26 : LowerLetters[j] = a.base], a.mark>>
  ELSE <<ch>>

\* if (code < 0x0300 || code > 0x036f) out += ch;
KeptByNormalize(ch) == CodePoint(ch) < CombiningFirst \/ CodePoint(ch) > CombiningLast

\* the decomposition is skipped: only marks already separate are removed
normalizeWithoutNFD(s) == SelectSeq(ToLowerCase(s), KeptByNormalize)

\* normalize(str): (str || "").toLowerCase().normalize("NFD"), then the loop
\* that keeps the characters outside U+0300..U+036F
normalize(s) ==
  SelectSeq(Concat([i \in 1..Len(s) |-> Decompose(LowerChar(s[i]))]), KeptByNormalize)

normalizeCall ==
  /\ npc = "start"
  /\ normOut' = normalize(str)
  /\ npc' = "done"
  /\ UNCHANGED <<str, raw, nodes, rpc, headers, rows, cells, tbpc, list, sorted, spc,
                 sectVars, tokVars, codeVars, appVars>>

\* the colour names ColorName compares with, in the order of its tests, and
\* the class each one returns
ColorNames ==
  << <<"n", "e", "g", "r", "o">>,
     <<"n", "a", "r", "a", "n", "j", "a">>,
     <<"a", "z", "u", "l">>,
     <<"m", "o", "r", "a", "d", "o">>,
     <<"r", "o", "j", "o", " ", "o", "s", "c", "u", "r", "o">>,
     <<"r", "o", "j", "o", " ", "c", "l", "a", "r", "o">>,
     <<"v", "e", "r", "d", "e">> >>

ColorClasses ==
  << "text-slate-900", "text-orange-500", "text-blue-500", "text-violet-600",
     "text-red-800", "text-red-500", "text-emerald-600" >>

\* "Rojo Oscuro" and "rojo   oscuro"
TextRojoOscuroCaps   == <<"R", "o", "j", "o", " ", "O", "s", "c", "u", "r", "o">>
TextRojoOscuroSpaces == <<"r", "o", "j", "o", " ", " ", " ", "o", "s", "c", "u", "r", "o">>

\* texts over a letter in both cases, with and without accent, a separate
\* combining mark of the range and one outside it, and white space; the
\* spellings of a colour name; "Programación"
NormInputs ==
  SeqsUpTo({"a", "A", "U+00E1", "U+00C1", "U+0301", "U+20D7", " "}, MaxNorm)
    \cup { ColorNames[5], TextRojoOscuroCaps, TextRojoOscuroSpaces,
           <<"P", "r", "o", "g", "r", "a", "m", "a", "c", "i", "U+00F3", "n">> }

InitNorm ==
  /\ str \in NormInputs
  /\ normOut = <<>> /\ npc = "start"
  /\ SectIdle /\ TokIdle /\ IdleExcept("norm")

SpecNorm == InitNorm /\ [][normalizeCall]_vars

----------------------------------------------------------------------------
(* ColorName and the table branch of renderBlock *)

\* s.includes(sub)
Includes(s, sub) ==
  \E i \in 0..(Len(s) - Len(sub)) : SubSeq(s, i + 1, i + Len(sub)) = sub

\* the class of the first name that equals n, text-slate-900 when none does
ClassOf(n) ==
  IF \E i \in 1..7 : ColorNames[i] = n
  THEN ColorClasses[Min({i \in 1..7 : ColorNames[i] = n})]
  ELSE "text-slate-900"

\* the name is compared with its runs of spaces collapsed to one space
ColorNameCollapsing(name) ==
  ClassOf(SelectSeq([i \in 1..Len(normalize(name)) |->
                       IF i > 1 /\ normalize(name)[i] = " " /\ normalize(name)[i - 1] = " "
                       THEN "drop" ELSE normalize(name)[i]],
                    LAMBDA ch : ch # "drop"))

\* the name is compared as written, without normalize
ColorNameAsWritten(name) == ClassOf(name)

\* ColorName: const n = normalize(name); if (n === "negro") return ...; ...
ColorName(name) == ClassOf(normalize(name))

\* const isColorTable = b.headers.length > 0 && normalize(b.headers[0]).includes("color")
IsColorTable(hs) ==
  Len(hs) > 0 /\ Includes(normalize(hs[1]), <<"c", "o", "l", "o", "r">>)

\* every cell of a colour table is looked up, whatever its column
TableCellEveryColumn(cell, c, isColorTable) ==
  IF isColorTable
  THEN [className |-> ColorName(cell), children |-> <<[tag |-> "text", text |-> cell]>>]
  ELSE [className |-> "text-muted-foreground", children |-> RichNodes(cell)]

\* the td of cell c (0-based) of a row: the first cell of a colour table is
\* a span with the class ColorName gives, every other cell is a RichText
TableCell(cell, c, isColorTable) ==
  IF isColorTable /\ c = 0
  THEN [className |-> ColorName(cell), children |-> <<[tag |-> "text", text |-> cell]>>]
  ELSE [className |-> "text-muted-foreground", children |-> RichNodes(cell)]

\* b.rows.map((row, r) => <tr>{row.map((cell, c) => ...)}</tr>)
renderTable ==
  /\ tbpc = "start"
  /\ cells' = [r \in 1..Len(rows) |->
                 [c \in 1..Len(rows[r]) |-> TableCell(rows[r][c], c - 1, IsColorTable(headers))]]
  /\ tbpc' = "done"
  /\ UNCHANGED <<headers, rows, raw, nodes, rpc, str, normOut, npc, list, sorted, spc,
                 sectVars, tokVars, codeVars, appVars>>

\* first cells: the names as enumerated and two as the data writes them, the
\* variants of "rojo oscuro", and texts that are no colour name
FirstCells ==
  Range(ColorNames)
    \cup { <<"N", "e", "g", "r", "o">>, <<"N", "a", "r", "a", "n", "j", "a">>,
           TextRojoOscuroCaps, TextRojoOscuroSpaces,
           <<"g", "r", "i", "s">>, <<"v", "e", "r", "d", "e", " ">>, <<BT, "a", BT>> }

\* header rows: none, three whose first cell says colour, two that do not
HeaderInputs ==
  { <<>>,
    << <<"C", "o", "l", "o", "r", " ", "(", "x", ")">>, <<"U", "s", "o">> >>,
    << <<"C", "O", "L", "O", "R", "E", "S">>, <<"U", "s", "o">> >>,
    << <<"E", "l", " ", "c", "o", "l", "U+00F3", "r">> >>,
    << <<"N", "o", "m", "b", "r", "e">>, <<"U", "s", "o">> >>,
    << <<"U", "s", "o">>, <<"C", "o", "l", "o", "r">> >> }

\* rows of two cells, and an empty row, a row of one cell and a row of three
\* cells whose last cell is a colour name
InitTable ==
  /\ headers \in HeaderInputs
  /\ rows \in SeqsUpTo({<<c, <<"x", BT, "y", BT>>>> : c \in FirstCells}
                          \cup { <<>>, <<ColorNames[7]>>,
                                 <<ColorNames[1], <<BT, "x", BT>>, ColorNames[3]>> },
                        MaxRows)
  /\ cells = <<>> /\ tbpc = "start"
  /\ SectIdle /\ TokIdle /\ IdleExcept("table")

SpecTable == InitTable /\ [][renderTable]_vars

----------------------------------------------------------------------------
(* sortCourses *)

\* a course counts as in construction only when the field is true
isInConstructionTruthy(course) == course.inConstruction = "true"

\* course.inConstruction !== false; the field is "true", "false" or "undefined"
isInConstructionCourse(course) == course.inConstruction # "false"

\* the primary weight of a character in the collation of locale "es": the
\* letters in alphabetical order without regard to case or accent, n with
\* tilde a letter of its own between n and o, every other character first
CollationRank(ch) ==
  LET l == LowerChar(ch)
      b == IF \E a \in Accents : a.lower = l
           THEN (CHOOSE a \in Accents : a.lower = l).base
           ELSE l
  IN IF l = "U+00F1" THEN 29
     ELSE IF b \in Range(LowerLetters) THEN 2 * (CHOOSE j \in 1..26 : LowerLetters[j] = b)
     ELSE 0

\* a.localeCompare(b, "es", { sensitivity: "base" }): the first difference of
\* primary weight decides, a proper prefix comes first
RECURSIVE localeCompare(_, _)
localeCompare(a, b) ==
  IF a = <<>> /\ b = <<>> THEN 0
  ELSE IF a = <<>> THEN -1
  ELSE IF b = <<>> THEN 1
  ELSE IF CollationRank(Head(a)) < CollationRank(Head(b)) THEN -1
  ELSE IF CollationRank(Head(a)) > CollationRank(Head(b)) THEN 1
  ELSE localeCompare(Tail(a), Tail(b))

\* the comparator of out.sort
compareCourses(a, b) ==
  LET ai == IF isInConstructionCourse(a) THEN 1 ELSE 0
      bj == IF isInConstructionCourse(b) THEN 1 ELSE 0
  IN IF ai # bj THEN ai - bj ELSE localeCompare(a.title, b.title)

\* Array.prototype.sort, a stable sort by the comparator: the last element is
\* placed behind the elements of the sorted rest that do not come after it
RECURSIVE StableSort(_)
StableSort(l) ==
  IF l = <<>> THEN <<>>
  ELSE LET front  == StableSort(SubSeq(l, 1, Len(l) - 1))
           x      == l[Len(l)]
           before == {i \in 1..Len(front) : compareCourses(front[i], x) <= 0}
           n      == IF before = {} THEN 0 ELSE Max(before)
       IN SubSeq(front, 1, n) \o <<x>> \o SubSeq(front, n + 1, Len(front))

\* const out = list.slice(); out.sort(...); return out;
sortCourses ==
  /\ spc = "start"
  /\ sorted' = StableSort(list)
  /\ spc' = "done"
  /\ UNCHANGED <<list, raw, nodes, rpc, str, normOut, npc, headers, rows, cells, tbpc,
                 sectVars, tokVars, codeVars, appVars>>

\* four titles, two of them equal but for case, one with an accent, with
\* each value of the field
CoursePool ==
  {[title |-> tt, inConstruction |-> c] :
     tt \in { <<"Z", "e", "t", "a">>, <<"A", "l", "f", "a">>, <<"a", "l", "f", "a">>,
              <<"U+00C1", "l", "b", "u", "m">> },
     c \in {"true", "false", "undefined"}}

\* the courses of a list carry distinct ids
InitSort ==
  /\ list \in {[k \in 1..Len(l) |->
                 [id |-> k, title |-> l[k].title, inConstruction |-> l[k].inConstruction]] :
               l \in SeqsUpTo(CoursePool, MaxCourses)}
  /\ sorted = <<>> /\ spc = "start"
  /\ SectIdle /\ TokIdle /\ IdleExcept("sort")

SpecSort == InitSort /\ [][sortCourses]_vars

----------------------------------------------------------------------------
(* CodeBlock: the text split into lines, each line tokenized by a call of    *)
(* tokenizePythonLine                                                        *)

\* String.fromCharCode(10)
LF == "\n"

\* String(p.text || "").split(String.fromCharCode(13)).join("")
Cleaned(text) == SelectSeq(text, LAMBDA ch : ch # "\r")

\* cleaned.split(String.fromCharCode(10))
RECURSIVE SplitLines(_)
SplitLines(s) ==
  IF IndexOf(s, LF, 0) = -1 THEN <<s>>
  ELSE <<Slice(s, 0, IndexOf(s, LF, 0))>> \o SplitLines(SliceFrom(s, IndexOf(s, LF, 0) + 1))

\* the quote and escape flags are left as the previous call left them
CarriedLocals == [inSingle |-> inSingle, inDouble |-> inDouble, escaped |-> escaped]

\* let inSingle = false; let inDouble = false; let escaped = false;
FreshLocals == [inSingle |-> FALSE, inDouble |-> FALSE, escaped |-> FALSE]

\* const cleaned = ...; const lines = cleaned.split(...)
CodeBlockSplit ==
  /\ cpc = "start"
  /\ lines' = SplitLines(Cleaned(cbText))
  /\ li' = 1
  /\ lineSpans' = <<>>
  /\ cpc' = "map"
  /\ UNCHANGED <<cbText, keywords, builtins, again, sectVars, tokVars, pureVars, appVars>>

\* lines.map((ln, idx) => ... tokenizePythonLine(ln) ...): the call, with the
\* locals of lines 660-663 initialized
CallTokenize ==
  /\ cpc = "map" /\ li <= Len(lines) /\ tpc = "idle"
  /\ line' = lines[li]
  /\ inSingle' = FreshLocals.inSingle
  /\ inDouble' = FreshLocals.inDouble
  /\ escaped' = FreshLocals.escaped
  /\ commentAt' = -1
  /\ ti' = 0 /\ lexPos' = 0 /\ tokens' = <<>> /\ rendered' = <<>>
  /\ tpc' = "scan"
  /\ UNCHANGED <<codeVars, sectVars, pureVars, appVars>>

\* the call has returned: its spans are the content of <span key={"l-" + idx}>
CollectLine ==
  /\ cpc = "map" /\ tpc = "done"
  /\ lineSpans' = Append(lineSpans, rendered)
  /\ li' = li + 1
  /\ tpc' = "idle"
  /\ UNCHANGED <<cbText, lines, cpc, keywords, builtins, again, line, ti, inSingle, inDouble, escaped, commentAt,
                 lexPos, tokens, rendered, sectVars, pureVars, appVars>>

\* map has visited every line: return <pre><code>...</code></pre>
CodeBlockReturn ==
  /\ cpc = "map" /\ li > Len(lines) /\ tpc = "idle"
  /\ cpc' = "done"
  /\ UNCHANGED <<cbText, lines, li, lineSpans, keywords, builtins, again, sectVars, tokVars, pureVars, appVars>>

NextCode ==
  \/ CodeBlockSplit
  \/ CallTokenize
  \/ NextTok
  \/ CollectLine
  \/ CodeBlockReturn

\* every short text over line feed, quotes, backslash, '#' and a letter;
\* texts with carriage returns; two lines of the lesson data
CodeInputs ==
  SeqsUpTo({LF, SQ, DQ, BS, "#", "a"}, MaxCode)
    \cup { <<"a", "\r", LF, "#", "a">>, <<"\r">>, <<SQ, "\r", LF, "\r", "#", SQ>>,
           <<"#", DQ, LF, "a", "#", LF, LF, DQ, BS, LF, "#">>,
           LinePrintHola \o <<LF>> \o LineComentario }

InitCode ==
  /\ cbText \in CodeInputs
  /\ lines = <<>> /\ li = 0 /\ lineSpans = <<>> /\ cpc = "start"
  /\ SectIdle /\ TokIdle /\ IdleExcept("code")

SpecCode == InitCode /\ [][NextCode]_vars

----------------------------------------------------------------------------
(* filterCourses *)

\* only the list of cycles counts: a single cycle is ignored
getCyclesListOnly(course) ==
  IF course.cyclesIsArray THEN course.cycles ELSE <<>>

\* getCycles: the list cycles when it is a non-empty array, else the single
\* cycle when there is one ("none" for undefined), else the empty list
getCycles(course) ==
  IF course.cyclesIsArray /\ Len(course.cycles) > 0 THEN course.cycles
  ELSE IF course.cycle # "none" THEN <<course.cycle>>
  ELSE <<>>

\* const q = normalize(query).trim(); return courses.filter((c) => ...)
filterCourses ==
  /\ fpc = "start"
  /\ filtered' =
       SelectSeq(courses,
                 LAMBDA c :
                   /\ cycle # "all" => \E i \in 1..Len(getCycles(c)) : getCycles(c)[i] = cycle
                   /\ Trim(normalize(query)) = <<>>
                        \/ Includes(normalize(c.title), Trim(normalize(query))))
  /\ fpc' = "done"
  /\ UNCHANGED <<courses, query, cycle, location, hashEvent, hash, parsed, selectedCourseId,
                 selectedTopicId, scrolledTo, apc, sectVars, tokVars, pureVars, codeVars>>

\* lists of courses with distinct ids: two titles, with a list of one or two
\* cycles, an empty list beside a single cycle, no list and a single cycle,
\* and neither; a query empty, of white space, with capitals and an accent,
\* with a separate mark before a space, and one no title holds
InitFilter ==
  /\ courses \in
       { [k \in 1..Len(l) |->
            [id |-> k, title |-> l[k][1], cyclesIsArray |-> l[k][2].a,
             cycles |-> l[k][2].l, cycle |-> l[k][2].c]] :
         l \in SeqsUpTo({ <<"R", "e", "d", "e", "s">>, <<"U+00C1", "r", "e", "a">> }
                          \X { [a |-> TRUE, l |-> <<"DAM">>, c |-> "none"],
                               [a |-> TRUE, l |-> <<"DAM", "DAW">>, c |-> "none"],
                               [a |-> TRUE, l |-> <<>>, c |-> "DAW"],
                               [a |-> FALSE, l |-> <<>>, c |-> "DAW"],
                               [a |-> FALSE, l |-> <<>>, c |-> "none"] },
                        MaxFilter) }
  /\ query \in { <<>>, <<" ", " ">>, <<" ", "R", "E", " ">>, <<"a", "r", "e">>,
                 <<"U+0301", " ", "e">>, <<"x">> }
  /\ cycle \in {"all", "DAM", "DAW", "ASIR"}
  /\ filtered = <<>> /\ fpc = "start"
  /\ SectIdle /\ TokIdle /\ IdleExcept("filter")

SpecFilter == InitFilter /\ [][filterCourses]_vars

----------------------------------------------------------------------------
(* parseHash *)

\* clean.split("/").filter(Boolean): the non-empty parts between slashes
RECURSIVE PartsOf(_)
PartsOf(s) ==
  IF s = <<>> THEN <<>>
  ELSE IF IndexOf(s, "/", 0) = -1 THEN <<s>>
  ELSE (IF IndexOf(s, "/", 0) = 0 THEN <<>> ELSE <<Slice(s, 0, IndexOf(s, "/", 0))>>)
         \o PartsOf(SliceFrom(s, IndexOf(s, "/", 0) + 1))

\* the view is "topic" whenever the third part is "topic", a fourth or not
parseHashTopicWithoutId(h) ==
  LET clean == IF h # <<>> /\ h[1] = "#"
               THEN (IF Len(h) >= 2 /\ h[2] = "/" THEN SliceFrom(h, 2) ELSE SliceFrom(h, 1))
               ELSE h
      parts == PartsOf(clean)
  IN IF Len(parts) = 0 THEN [view |-> "catalog", courseId |-> <<>>, topicId |-> <<>>]
     ELSE IF parts[1] = <<"c", "o", "u", "r", "s", "e">> /\ Len(parts) >= 2
     THEN IF Len(parts) >= 3 /\ parts[3] = <<"t", "o", "p", "i", "c">>
          THEN [view |-> "topic", courseId |-> parts[2],
                topicId |-> IF Len(parts) >= 4 THEN parts[4] ELSE <<>>]
          ELSE [view |-> "course", courseId |-> parts[2], topicId |-> <<>>]
     ELSE [view |-> "catalog", courseId |-> <<>>, topicId |-> <<>>]

\* parseHash: clean = (hash || "").replace(/^#\/?/, ""), its parts, and the
\* view they name; a field the returned object lacks is <<>>
parseHash(h) ==
  LET clean == IF h # <<>> /\ h[1] = "#"
               THEN (IF Len(h) >= 2 /\ h[2] = "/" THEN SliceFrom(h, 2) ELSE SliceFrom(h, 1))
               ELSE h
      parts == PartsOf(clean)
  IN IF Len(parts) = 0 THEN [view |-> "catalog", courseId |-> <<>>, topicId |-> <<>>]
     ELSE IF parts[1] = <<"c", "o", "u", "r", "s", "e">> /\ Len(parts) >= 2
     THEN IF Len(parts) >= 4 /\ parts[3] = <<"t", "o", "p", "i", "c">>
          THEN [view |-> "topic", courseId |-> parts[2], topicId |-> parts[4]]
          ELSE [view |-> "course", courseId |-> parts[2], topicId |-> <<>>]
     ELSE [view |-> "catalog", courseId |-> <<>>, topicId |-> <<>>]

\* a call of parseHash on its own
parseHashCall ==
  /\ apc = "start"
  /\ parsed' = parseHash(hash)
  /\ apc' = "done"
  /\ UNCHANGED <<courses, query, cycle, filtered, fpc, location, hashEvent, hash,
                 selectedCourseId, selectedTopicId, scrolledTo,
                 sectVars, tokVars, pureVars, codeVars>>

\* hashes: nothing, "#", "#/", "##" or "/" followed by up to MaxSegs segments
\* joined with slashes, a segment being "course", "topic", "Course", an id or
\* empty
InitParse ==
  /\ hash \in
       { pre \o Concat([i \in 1..Len(segs) |->
                         IF i = 1 THEN segs[i] ELSE <<"/">> \o segs[i]]) :
         pre \in { <<>>, <<"#">>, <<"#", "/">>, <<"#", "#">>, <<"/">> },
         segs \in SeqsUpTo({ <<"c", "o", "u", "r", "s", "e">>, <<"t", "o", "p", "i", "c">>,
                             <<"C", "o", "u", "r", "s", "e">>, <<"p">>, <<>> }, MaxSegs) }
  /\ location = hash /\ hashEvent = FALSE
  /\ parsed = [view |-> "none", courseId |-> <<>>, topicId |-> <<>>]
  /\ selectedCourseId = <<>> /\ selectedTopicId = <<>> /\ scrolledTo = <<>>
  /\ apc = "start"
  /\ SectIdle /\ TokIdle /\ IdleExcept("app")
  /\ courses = <<>> /\ query = <<>> /\ cycle = "all" /\ filtered = <<>> /\ fpc = "idle"

SpecParse == InitParse /\ [][parseHashCall]_vars

----------------------------------------------------------------------------
(* App: hash routing, the selection effect, the navigation handlers *)

\* COURSES: a course with two topics and a course without topics
COURSES ==
  << [id |-> <<"p">>, topics |-> << <<"a">>, <<"b">> >>],
     [id |-> <<"q">>, topics |-> <<>>] >>

\* what the App returns: selectedCourse = COURSES.find(...) for a selected
\* id, selectedTopic = topics.find(...) for a selected topic id; the topic
\* page when both exist, the course home when only the course does, else
\* the catalog
ShownView ==
  LET found == {i \in 1..Len(COURSES) : COURSES[i].id = selectedCourseId}
  IN IF selectedCourseId = <<>> \/ found = {} THEN "catalog"
     ELSE IF /\ selectedTopicId # <<>>
             /\ \E j \in 1..Len(COURSES[Min(found)].topics) :
                  COURSES[Min(found)].topics[j] = selectedTopicId
          THEN "topic"
          ELSE "course"

\* routing.set of a route written as a template literal with the segments
\* segs, "/" for none: window.location.hash = next; the browser queues a
\* hashchange event when the hash changes
RoutingSet(segs) ==
  /\ location' = <<"#", "/">> \o Concat([i \in 1..Len(segs) |->
                                          IF i = 1 THEN segs[i] ELSE <<"/">> \o segs[i]])
  /\ hashEvent' = (hashEvent \/ location' # location)

\* const openCourse = (id) => routing.set(`/course/${id}`)
openCourse(id) ==
  /\ apc = "app"
  /\ RoutingSet(<< <<"c", "o", "u", "r", "s", "e">>, id >>)
  /\ UNCHANGED <<hash, parsed, selectedCourseId, selectedTopicId, scrolledTo, apc,
                 courses, query, cycle, filtered, fpc, sectVars, tokVars, pureVars, codeVars>>

\* const goCatalog = () => routing.set(`/`)
goCatalog ==
  /\ apc = "app"
  /\ RoutingSet(<<>>)
  /\ UNCHANGED <<hash, parsed, selectedCourseId, selectedTopicId, scrolledTo, apc,
                 courses, query, cycle, filtered, fpc, sectVars, tokVars, pureVars, codeVars>>

\* the guard on selectedCourseId is dropped
openTopicUnguarded(topicId) ==
  /\ apc = "app"
  /\ RoutingSet(<< <<"c", "o", "u", "r", "s", "e">>, selectedCourseId,
                   <<"t", "o", "p", "i", "c">>, topicId >>)
  /\ UNCHANGED <<hash, parsed, selectedCourseId, selectedTopicId, scrolledTo, apc,
                 courses, query, cycle, filtered, fpc, sectVars, tokVars, pureVars, codeVars>>

\* openTopic: if (!selectedCourseId) return; routing.set(`/course/${...}/topic/${topicId}`)
openTopic(topicId) ==
  /\ apc = "app"
  /\ IF selectedCourseId = <<>> THEN UNCHANGED <<location, hashEvent>>
     ELSE RoutingSet(<< <<"c", "o", "u", "r", "s", "e">>, selectedCourseId,
                        <<"t", "o", "p", "i", "c">>, topicId >>)
  /\ UNCHANGED <<hash, parsed, selectedCourseId, selectedTopicId, scrolledTo, apc,
                 courses, query, cycle, filtered, fpc, sectVars, tokVars, pureVars, codeVars>>

\* backToCourse: if (!selectedCourseId) return; routing.set(`/course/${selectedCourseId}`)
backToCourse ==
  /\ apc = "app"
  /\ IF selectedCourseId = <<>> THEN UNCHANGED <<location, hashEvent>>
     ELSE RoutingSet(<< <<"c", "o", "u", "r", "s", "e">>, selectedCourseId >>)
  /\ UNCHANGED <<hash, parsed, selectedCourseId, selectedTopicId, scrolledTo, apc,
                 courses, query, cycle, filtered, fpc, sectVars, tokVars, pureVars, codeVars>>

\* jumpToIndex: nothing without a selected course; the topic route when a
\* topic is selected; else scrollIntoView on indexRefs.current[topicId],
\* which the course home sets for every topic of the course it shows
jumpToIndex(topicId) ==
  /\ apc = "app"
  /\ IF selectedCourseId = <<>> THEN UNCHANGED <<location, hashEvent, scrolledTo>>
     ELSE IF selectedTopicId # <<>>
     THEN /\ RoutingSet(<< <<"c", "o", "u", "r", "s", "e">>, selectedCourseId,
                           <<"t", "o", "p", "i", "c">>, topicId >>)
          /\ UNCHANGED scrolledTo
     ELSE /\ scrolledTo' =
               IF /\ ShownView = "course"
                  /\ \E i \in 1..Len(COURSES) :
                       /\ COURSES[i].id = selectedCourseId
                       /\ \E j \in 1..Len(COURSES[i].topics) : COURSES[i].topics[j] = topicId
               THEN topicId ELSE scrolledTo
          /\ UNCHANGED <<location, hashEvent>>
  /\ UNCHANGED <<hash, parsed, selectedCourseId, selectedTopicId, apc,
                 courses, query, cycle, filtered, fpc, sectVars, tokVars, pureVars, codeVars>>

\* const onHash = () => setHash(window.location.hash || "")
onHash ==
  /\ apc = "app" /\ hashEvent
  /\ hash' = location
  /\ hashEvent' = FALSE
  /\ UNCHANGED <<location, parsed, selectedCourseId, selectedTopicId, scrolledTo, apc,
                 courses, query, cycle, filtered, fpc, sectVars, tokVars, pureVars, codeVars>>

\* the course view keeps the selected topic
SyncEffectKeepsTopic ==
  /\ apc = "app"
  /\ parsed # parseHash(hash)
  /\ parsed' = parseHash(hash)
  /\ selectedCourseId' = parsed'.courseId
  /\ selectedTopicId' = IF parsed'.view = "course" THEN selectedTopicId ELSE parsed'.topicId
  /\ UNCHANGED <<location, hashEvent, hash, scrolledTo, apc,
                 courses, query, cycle, filtered, fpc, sectVars, tokVars, pureVars, codeVars>>

\* a render with a new hash and its effect: parsed = useMemo(parseHash(hash));
\* the effect runs when parsed.view, courseId or topicId have changed and on
\* mount, and sets the selection: null, null for the catalog; the course and
\* null for a course; the course and the topic for a topic
SyncEffect ==
  /\ apc = "app"
  /\ parsed # parseHash(hash)
  /\ parsed' = parseHash(hash)
  /\ selectedCourseId' = parsed'.courseId
  /\ selectedTopicId' = parsed'.topicId
  /\ UNCHANGED <<location, hashEvent, hash, scrolledTo, apc,
                 courses, query, cycle, filtered, fpc, sectVars, tokVars, pureVars, codeVars>>

\* hashes the address bar is given: none, "#/", "#/course/p", "#/course/x",
\* "#/course/p/topic/a", "#/course/p/topic/z", "#/course/q/topic/a",
\* "#/course/p/topic", "#/topic/a", "#course/q"
ExternalHashes ==
  { <<>>, <<"#", "/">>,
    <<"#", "/", "c", "o", "u", "r", "s", "e", "/", "p">>,
    <<"#", "/", "c", "o", "u", "r", "s", "e", "/", "x">>,
    <<"#", "/", "c", "o", "u", "r", "s", "e", "/", "p", "/", "t", "o", "p", "i", "c", "/", "a">>,
    <<"#", "/", "c", "o", "u", "r", "s", "e", "/", "p", "/", "t", "o", "p", "i", "c", "/", "z">>,
    <<"#", "/", "c", "o", "u", "r", "s", "e", "/", "q", "/", "t", "o", "p", "i", "c", "/", "a">>,
    <<"#", "/", "c", "o", "u", "r", "s", "e", "/", "p", "/", "t", "o", "p", "i", "c">>,
    <<"#", "/", "t", "o", "p", "i", "c", "/", "a">>,
    <<"#", "c", "o", "u", "r", "s", "e", "/", "q">> }

\* the user edits the address or goes back: the hash changes outside the App
ExternalHashChange ==
  /\ apc = "app"
  /\ \E h \in ExternalHashes \ {location} : location' = h
  /\ hashEvent' = TRUE
  /\ UNCHANGED <<hash, parsed, selectedCourseId, selectedTopicId, scrolledTo, apc,
                 courses, query, cycle, filtered, fpc, sectVars, tokVars, pureVars, codeVars>>

NextApp ==
  \/ \E i \in 1..Len(COURSES) : openCourse(COURSES[i].id)
  \/ goCatalog
  \/ \E topicId \in {<<"a">>, <<"b">>} : openTopic(topicId)
  \/ backToCourse
  \/ \E topicId \in {<<"a">>, <<"b">>} : jumpToIndex(topicId)
  \/ onHash
  \/ SyncEffect
  \/ ExternalHashChange

\* the page is loaded at any of the hashes: useState(() => window.location.hash || "")
InitApp ==
  /\ location \in ExternalHashes
  /\ hash = location /\ hashEvent = FALSE
  /\ parsed = [view |-> "none", courseId |-> <<>>, topicId |-> <<>>]
  /\ selectedCourseId = <<>> /\ selectedTopicId = <<>> /\ scrolledTo = <<>>
  /\ apc = "app"
  /\ SectIdle /\ TokIdle /\ IdleExcept("app")
  /\ courses = <<>> /\ query = <<>> /\ cycle = "all" /\ filtered = <<>> /\ fpc = "idle"

SpecApp == InitApp /\ [][NextApp]_vars

\* a further display request: TopicBlocks, or CodeBlock, is called again with
\* the same props; what the former call left is set up anew by the new call
Redisplay ==
  /\ ~again
  /\ pc \in {"rendered", "null"} \/ cpc = "done"
  /\ again' = TRUE
  /\ pc' = IF pc \in {"rendered", "null"} THEN "start" ELSE pc
  /\ view' = IF pc \in {"rendered", "null"} THEN [root |-> "pending", cards |-> <<>>] ELSE view
  /\ cpc' = IF cpc = "done" THEN "start" ELSE cpc
  /\ UNCHANGED <<blocks, isArray, bi, sections, current, cbText, lines, li, lineSpans,
                 keywords, builtins, tokVars, pureVars, appVars>>

\* a lesson displayed, and displayed again: its sections and its code blocks
SpecLesson == (InitSect \/ InitCode) /\ [][NextSect \/ NextCode \/ Redisplay]_vars

Init ==
  \/ InitSect \/ InitTok \/ InitRich \/ InitNorm \/ InitTable \/ InitSort \/ InitCode
  \/ InitFilter \/ InitParse \/ InitApp

Next ==
  \/ NextSect \/ RichText \/ normalizeCall \/ renderTable \/ sortCourses \/ NextCode
  \/ Redisplay \/ filterCourses \/ parseHashCall \/ NextApp

Spec == Init /\ [][Next]_vars

----------------------------------------------------------------------------
(* Vocabulary of the properties of the Sectionizer *)

SectDone == pc = "done"

\* the input without its null entries, which are no content blocks
NonNull(bs) == SelectSeq(bs, LAMBDA b : ~IsNullBlock(b))

IsTopLevel(b) == IsHeadingBlock(b) /\ ~IsSubHeadingBlock(b)

\* the first section is anonymous when the first content block is no top-level heading
AnonFirst(bs) == NonNull(bs) # <<>> /\ ~IsTopLevel(Head(NonNull(bs)))

RECURSIVE Emit(_, _)
\* walk the sections: the heading of a headed section, then its blocks
Emit(secs, anon) ==
  IF secs = <<>> THEN <<>>
  ELSE (IF anon THEN <<>> ELSE <<Heading(Head(secs).title)>>)
         \o Head(secs).blocks \o Emit(Tail(secs), FALSE)

RECURSIVE Flatten(_)
Flatten(secs) ==
  IF secs = <<>> THEN <<>> ELSE Head(secs).blocks \o Flatten(Tail(secs))

\* the titles of the sections a heading started
HeadedTitles(secs, anon) ==
  LET hs == IF anon THEN Tail(secs) ELSE secs
  IN [k \in 1..Len(hs) |-> hs[k].title]

TopLevelTexts(bs) ==
  LET tops == SelectSeq(bs, IsTopLevel)
  IN [k \in 1..Len(tops) |-> tops[k].text]

\* the index of the section the top-level heading at position k of bs starts
SectionOf(bs, k) ==
  Cardinality({j \in 1..k : IsTopLevel(bs[j])}) + (IF AnonFirst(bs) THEN 1 ELSE 0)

\* the position of the next top-level heading after k, or Len(bs) + 1
NextTop(bs, k) ==
  Min({j \in (k + 1)..Len(bs) : IsTopLevel(bs[j])} \cup {Len(bs) + 1})

InBlockList(b) ==
  \E s \in 1..Len(sections) : \E j \in 1..Len(sections[s].blocks) : sections[s].blocks[j] = b

IsTitle(t) == \E s \in 1..Len(sections) : sections[s].title = t

Last(q) == q[Len(q)]

\* C1: once the loop has ended, emitting for every section its heading (none for a
\* leading anonymous section) followed by its blocks reproduces the content blocks
\* of the input in order; the block lists hold exactly the blocks that are no
\* top-level heading, once each and in order; the titles taken from headings are
\* exactly the texts of the top-level headings, in order.
C1_Partition ==
  SectDone =>
    /\ Emit(sections, AnonFirst(blocks)) = NonNull(blocks)
    /\ Flatten(sections) = SelectSeq(NonNull(blocks), LAMBDA b : ~IsTopLevel(b))
    /\ HeadedTitles(sections, AnonFirst(blocks)) = TopLevelTexts(NonNull(blocks))

\* a run over three content blocks that produced two sections
C1_Witness ==
  /\ SectDone /\ Len(blocks) = 3 /\ NonNull(blocks) = blocks
  /\ Len(sections) = 2
  /\ \E k \in 1..3 : IsHeadingBlock(blocks[k]) /\ IsSubHeadingBlock(blocks[k])
  /\ \E k \in 1..3 : ~IsHeadingBlock(blocks[k])

\* what the specification calls <digits>.<digits>: the trimmed text starts with a
\* run of digits, one '.', and a digit
MatchesDigitsDotDigits(t) ==
  LET s  == Trim(t)
      d1 == IndexOf(s, ".", 0)
  IN d1 > 0 /\ AllDigits(Slice(s, 0, d1)) /\ d1 + 1 < Len(s) /\ IsDigit(s[d1 + 2])

\* <digits>.<digits>. : the second run of digits is closed by a second '.'
MatchesDigitsDotDigitsDot(t) ==
  LET s == Trim(t)
  IN \E i \in 2..Len(s) : \E j \in (i + 2)..Len(s) :
       /\ s[i] = "." /\ s[j] = "."
       /\ AllDigits(SubSeq(s, 1, i - 1)) /\ AllDigits(SubSeq(s, i + 1, j - 1))

\* the heading at position k went into a block list and gave no title
PlacedAsSubHeading(k) == InBlockList(blocks[k]) /\ ~IsTitle(blocks[k].text)

\* the heading at position k started a section and is in no block list
PlacedAsTopLevel(k) == IsTitle(blocks[k].text) /\ ~InBlockList(blocks[k])

\* C2 as stated: every heading whose text matches <digits>.<digits> is a sub-heading
C2_AsStated ==
  SectDone =>
    \A k \in 1..Len(blocks) :
      IsHeadingBlock(blocks[k]) /\ MatchesDigitsDotDigits(blocks[k].text)
        => PlacedAsSubHeading(k)

\* C2: a heading whose trimmed text starts <digits>.<digits>. (with the second
\* '.') is appended to a block list and gives no title; a heading that matches
\* <digits>.<digits> without that second '.', such as "40.5" or "4.2 Something",
\* starts a section.
C2_TwoDots ==
  SectDone =>
    \A k \in 1..Len(blocks) :
      IsHeadingBlock(blocks[k]) =>
        /\ MatchesDigitsDotDigitsDot(blocks[k].text) => PlacedAsSubHeading(k)
        /\ MatchesDigitsDotDigits(blocks[k].text)
             /\ ~MatchesDigitsDotDigitsDot(blocks[k].text) => PlacedAsTopLevel(k)

\* "4.1. Shell" was appended to the section of "Tema 4"
C2_Witness ==
  /\ SectDone
  /\ blocks = <<Heading(TextTema), Heading(<<"4", ".", "1", ".", " ", "S", "h", "e", "l", "l">>)>>
  /\ Len(sections) = 1 /\ Len(sections[1].blocks) = 1

\* "ejercicio", at least one white space character, a digit (case-insensitive)
ClaimedExercise(t) ==
  LET s == ToLowerCase(Trim(t))
  IN /\ StartsWith(s, Ejercicio)
     /\ \E n \in 1..Len(s) :
          /\ Len(Ejercicio) + n < Len(s)
          /\ \A i \in 1..n : IsSpace(s[Len(Ejercicio) + i])
          /\ IsDigit(s[Len(Ejercicio) + n + 1])

\* "ejercicio", any number of white space characters, a digit (case-insensitive)
LenientExercise(t) ==
  LET s == ToLowerCase(Trim(t))
  IN /\ StartsWith(s, Ejercicio)
     /\ \E n \in 0..Len(s) :
          /\ Len(Ejercicio) + n < Len(s)
          /\ \A i \in 1..n : IsSpace(s[Len(Ejercicio) + i])
          /\ IsDigit(s[Len(Ejercicio) + n + 1])

\* a heading that is no numbered sub-heading
Unnumbered(b) == IsHeadingBlock(b) /\ ~MatchesDigitsDotDigits(b.text)

\* C3 as stated: an unnumbered heading is a sub-heading exactly when "ejercicio" is
\* followed by at least one white space character and then a digit
C3_AsStated ==
  SectDone =>
    \A k \in 1..Len(blocks) :
      Unnumbered(blocks[k]) =>
        (PlacedAsSubHeading(k) <=> ClaimedExercise(blocks[k].text))

\* C3: an unnumbered heading is a sub-heading exactly when its trimmed text,
\* case-insensitively, begins with "ejercicio" followed by zero or more white space
\* characters and then an ASCII digit; otherwise it starts a section.
C3_Exercise ==
  SectDone =>
    \A k \in 1..Len(blocks) :
      Unnumbered(blocks[k]) =>
        /\ PlacedAsSubHeading(k) <=> LenientExercise(blocks[k].text)
        /\ PlacedAsTopLevel(k) <=> ~LenientExercise(blocks[k].text)

\* "Ejercicio 1 . S" went into a block list, "Ejercicios" in another run did not
C3_Witness ==
  /\ SectDone /\ Len(blocks) = 1
  /\ \/ /\ StartsWith(blocks[1].text, <<"E", "j", "e", "r", "c", "i", "c", "i", "o", " ", "1", " ">>)
        /\ sections = <<[title |-> <<>>, blocks |-> blocks]>>
     \/ /\ blocks[1].text = <<"e", "j", "e", "r", "c", "i", "c", "i", "o", "1">>
        /\ sections = <<[title |-> <<>>, blocks |-> blocks]>>

\* C4: the top-level heading at position k starts the section numbered by the count
\* of top-level headings up to k; its title is the heading's text, its block list is
\* empty right after the heading and in the end holds exactly the content blocks up
\* to the next top-level heading; no block list ever holds a top-level heading.
C4_TopLevelStartsSection ==
  /\ pc = "loop" /\ bi > 1 /\ IsTopLevel(blocks[bi - 1])
       => /\ sections # <<>> /\ current = Len(sections)
          /\ Last(sections) = [title |-> blocks[bi - 1].text, blocks |-> <<>>]
          /\ Len(sections) = SectionOf(blocks, bi - 1)
  /\ SectDone =>
       \A k \in 1..Len(blocks) :
         IsTopLevel(blocks[k]) =>
           /\ SectionOf(blocks, k) \in 1..Len(sections)
           /\ sections[SectionOf(blocks, k)].title = blocks[k].text
           /\ sections[SectionOf(blocks, k)].blocks
                = NonNull(SubSeq(blocks, k + 1, NextTop(blocks, k) - 1))
  /\ \A s \in 1..Len(sections) : \A j \in 1..Len(sections[s].blocks) :
       ~IsTopLevel(sections[s].blocks[j])

\* two consecutive top-level headings: the first section stays empty
C4_Witness ==
  /\ SectDone /\ Len(blocks) = 3
  /\ IsTopLevel(blocks[1]) /\ IsTopLevel(blocks[2]) /\ ~IsHeadingBlock(blocks[3])
  /\ Len(sections) = 2 /\ sections[1].blocks = <<>> /\ sections[2].blocks = <<blocks[3]>>

\* C5: when the first block is a sub-heading or no heading, the first section is
\* anonymous (empty title) and starts with that block; a sub-heading goes to the end
\* of the block list of the section its predecessor left current, and no section
\* title is the text of a sub-heading.
C5_AnonymousFirst ==
  /\ pc \in {"loop", "done"} /\ bi > 1 /\ ~IsNullBlock(blocks[1]) /\ ~IsTopLevel(blocks[1])
       => /\ sections # <<>>
          /\ sections[1].title = <<>>
          /\ sections[1].blocks # <<>> /\ sections[1].blocks[1] = blocks[1]
  /\ pc = "loop" /\ bi > 2 /\ ~IsNullBlock(blocks[bi - 2])
       /\ IsHeadingBlock(blocks[bi - 1]) /\ IsSubHeadingBlock(blocks[bi - 1])
       => /\ sections # <<>> /\ current = Len(sections)
          /\ IF IsTopLevel(blocks[bi - 2])
             THEN Last(sections) = [title |-> blocks[bi - 2].text, blocks |-> <<blocks[bi - 1]>>]
             ELSE /\ Len(Last(sections).blocks) >= 2
                  /\ SubSeq(Last(sections).blocks, Len(Last(sections).blocks) - 1,
                            Len(Last(sections).blocks)) = <<blocks[bi - 2], blocks[bi - 1]>>
  /\ \A s \in 1..Len(sections) : ~IsSubHeadingBlock(Heading(sections[s].title))

\* a leading sub-heading followed by a paragraph, both in the anonymous section
C5_Witness ==
  /\ SectDone /\ Len(blocks) = 2
  /\ IsHeadingBlock(blocks[1]) /\ IsSubHeadingBlock(blocks[1]) /\ ~IsHeadingBlock(blocks[2])
  /\ ~IsNullBlock(blocks[2])
  /\ sections = <<[title |-> <<>>, blocks |-> blocks]>>

----------------------------------------------------------------------------
(* Vocabulary of the properties of the tokenizer *)

TokDone == tpc = "done"

Texts(spans) == [k \in 1..Len(spans) |-> spans[k].text]

Kinds(spans) == [k \in 1..Len(spans) |-> spans[k].kind]

RECURSIVE QuoteStateAt(_, _)
\* the quote and escape state in front of position n (0-based), by the rules of
\* the scan: an escaped character is consumed, a backslash escapes, a single quote
\* toggles outside double quotes, a double quote toggles outside single quotes
QuoteStateAt(s, n) ==
  IF n = 0 THEN [sq |-> FALSE, dq |-> FALSE, esc |-> FALSE]
  ELSE LET prev == QuoteStateAt(s, n - 1)
           ch   == s[n]
       IN IF prev.esc THEN [prev EXCEPT !.esc = FALSE]
          ELSE IF ch = BS THEN [prev EXCEPT !.esc = TRUE]
          ELSE IF ch = SQ /\ ~prev.dq THEN [prev EXCEPT !.sq = ~prev.sq]
          ELSE IF ch = DQ /\ ~prev.sq THEN [prev EXCEPT !.dq = ~prev.dq]
          ELSE prev

Outside(st) == ~st.sq /\ ~st.dq

\* the positions of a '#' outside both quote states and not escaped
HashStarts(s) ==
  {j \in 0..(Len(s) - 1) :
     CharAt(s, j) = "#" /\ Outside(QuoteStateAt(s, j)) /\ ~QuoteStateAt(s, j).esc}

\* the number of consecutive backslashes that end right before position p
BackslashRun(s, p) ==
  p - Min({q \in 0..p : \A r \in q..(p - 1) : CharAt(s, r) = BS})

\* while lexemes are collected, the next match (if any) is not empty, so that the
\* iteration advances
LexProgress ==
  LET code   == CodePart(line, commentAt)
      starts == MatchStarts(code, lexPos)
  IN starts # {} => MatchAt(code, Min(starts)) > Min(starts)

\* C6: the tokenizer never gets stuck before it returns (a step is enabled in every
\* state of the scan and of the mapping, every match advances), and the texts of the
\* returned spans, all non-empty, concatenate to the input line exactly; a comment
\* span can only be the last one.
C6_Lossless ==
  /\ tpc \in {"scan", "map", "comment"} => ENABLED NextTok
  /\ tpc = "lex" => LexProgress
  /\ ti <= Len(line) /\ lexPos <= Len(line)
  /\ TokDone =>
       /\ Concat(Texts(rendered)) = line
       /\ \A k \in 1..Len(rendered) : rendered[k].text # <<>>
       /\ \A k \in 1..(Len(rendered) - 1) : rendered[k].kind # "comment"

\* a line with a lone quote, code after it and a comment came back in full
C6_Witness ==
  /\ TokDone /\ Len(rendered) >= 3
  /\ Last(rendered).kind = "comment"
  /\ \E k \in 1..Len(rendered) : rendered[k].text \in {<<DQ>>, <<SQ>>}
  /\ Concat(Texts(rendered)) = line

\* the line ends inside a quoted run: no comment was found and a quote state is set
Unterminated == commentAt = -1 /\ (inSingle \/ inDouble)

\* the position of the quote that opened the run the line ends in
OpenQuoteAt(s) ==
  Max({j \in 0..(Len(s) - 1) :
         Outside(QuoteStateAt(s, j)) /\ ~Outside(QuoteStateAt(s, j + 1))})

\* C7 as stated: a line that ends inside a quoted run yields one string-literal
\* token from the opening quote to the end of the line
C7_AsStated ==
  TokDone /\ Unterminated =>
    /\ rendered # <<>>
    /\ Last(rendered) = Span(SliceFrom(line, OpenQuoteAt(line)), "string")

\* C8: when the scan is over, commentAt is the first position of a '#' that lies
\* outside both quote states and is not escaped, or -1 when there is none; while the
\* scan runs no such '#' lies behind it; a '#' found as the comment start has an even
\* number of backslashes right in front of it.
C8_CommentBoundary ==
  /\ tpc = "scan" =>
       /\ commentAt = -1
       /\ \A j \in HashStarts(line) : j >= ti
       /\ [sq |-> inSingle, dq |-> inDouble, esc |-> escaped] = QuoteStateAt(line, ti)
  /\ tpc \in {"lex", "map", "comment", "done"} =>
       /\ commentAt = IF HashStarts(line) = {} THEN -1 ELSE Min(HashStarts(line))
       /\ commentAt # -1 =>
            /\ CharAt(line, commentAt) = "#"
            /\ BackslashRun(line, commentAt) % 2 = 0
            /\ ~inSingle /\ ~inDouble

\* a '#' inside quotes or behind a backslash was passed over, a later one was taken
C8_Witness ==
  /\ TokDone /\ commentAt > 0
  /\ \E j \in 0..(commentAt - 1) :
       CharAt(line, j) = "#" /\ (~Outside(QuoteStateAt(line, j)) \/ BackslashRun(line, j) = 1)

\* C9: with a comment start the last span is the one comment span, from the '#' to
\* the end of the line, and the spans before it make up the text in front of the
\* '#'; without a comment start no span is a comment; a line that begins with '#'
\* comes back as a single comment span equal to the line.
C9_CommentToken ==
  TokDone =>
    /\ commentAt # -1 =>
         /\ rendered # <<>>
         /\ Last(rendered) = Span(SliceFrom(line, commentAt), "comment")
         /\ Last(rendered).text[1] = "#"
         /\ \A k \in 1..(Len(rendered) - 1) : rendered[k].kind # "comment"
         /\ Concat(Texts(SubSeq(rendered, 1, Len(rendered) - 1))) = Slice(line, 0, commentAt)
    /\ commentAt = -1 => \A k \in 1..Len(rendered) : rendered[k].kind # "comment"
    /\ line # <<>> /\ line[1] = "#" => rendered = <<Span(line, "comment")>>

\* "# comentario" came back as one comment span
C9_Witness ==
  /\ TokDone /\ line = LineComentario
  /\ rendered = <<Span(LineComentario, "comment")>>

\* the kind the first applicable rule gives a lexeme
ClaimedKind(t) ==
  CASE \A i \in 1..Len(t) : t[i] \in WhiteSpace -> "whitespace"
    [] t[1] \in {DQ, SQ} -> "string"
    [] t[1] \in Digits -> "number"
    [] \E k \in PY_KEYWORDS : k = t -> "keyword"
    [] \E k \in PY_BUILTINS : k = t -> "builtin"
    [] OTHER -> "plain"

\* C10: every span of the code part carries the kind of the first rule that applies
\* to its lexeme; print("Hola, Python") gives builtin print, plain (, string
\* "Hola, Python", plain ); true, which differs from a keyword in case only, is plain.
C10_Classification ==
  TokDone =>
    /\ \A k \in 1..Len(tokens) :
         tokens[k] # <<>> /\ rendered[k] = Span(tokens[k], ClaimedKind(tokens[k]))
    /\ line = LinePrintHola =>
         rendered = << Span(<<"p", "r", "i", "n", "t">>, "builtin"),
                       Span(<<"(">>, "plain"),
                       Span(SubSeq(LinePrintHola, 7, 20), "string"),
                       Span(<<")">>, "plain") >>
    /\ line = <<"t", "r", "u", "e">> => rendered = <<Span(line, "plain")>>
    /\ line = <<"T", "r", "u", "e">> => rendered = <<Span(line, "keyword")>>

\* print("Hola, Python") was tokenized into four spans
C10_Witness ==
  /\ TokDone /\ line = LinePrintHola /\ Len(rendered) = 4
  /\ Kinds(rendered) = <<"builtin", "plain", "string", "plain">>

----------------------------------------------------------------------------
(* Lexemes of the code part *)

\* the position of lexeme k in the code part (0-based) and the position after it
TokenStart(k) == Len(Concat(SubSeq(tokens, 1, k - 1)))

TokenEnd(k) == TokenStart(k) + Len(tokens[k])

NotWordAt(s, q) == q < 0 \/ q >= Len(s) \/ ~IsWordChar(CharAt(s, q))

\* the maximal run of word characters (ASCII letters, digits, underscore)
\* around position p, which holds one
RunFirst(s, p) == Max({q \in 0..p : NotWordAt(s, q - 1)})

RunAfter(s, p) == Min({q \in (p + 1)..Len(s) : NotWordAt(s, q)})

\* the end of the digits that follow position q, q itself when there are none
DigitsAfter(s, q) == Min({e \in q..Len(s) : e = Len(s) \/ CharAt(s, e) \notin Digits})

\* where the lexeme that starts at p ends.  A word run that starts with a
\* letter or underscore is one identifier; a word run of digits is one number,
\* with a fraction ".digits" when no word character follows the fraction; of
\* any other word run (a digit first, a letter or underscore later) every
\* character is a lexeme of its own.  White space is taken as a maximal run,
\* a quote with its terminated quoted run, anything else alone.
LexemeEnd(s, p) ==
  LET c  == CharAt(s, p)
      rs == RunFirst(s, p)
      re == RunAfter(s, p)
      fe == DigitsAfter(s, re + 1)
  IN IF IsWordChar(c)
     THEN IF p # rs THEN p + 1
          ELSE IF CharAt(s, rs) \notin Digits THEN re
          ELSE IF \E q \in rs..(re - 1) : CharAt(s, q) \notin Digits THEN p + 1
          ELSE IF re < Len(s) /\ CharAt(s, re) = "." /\ fe > re + 1 /\ NotWordAt(s, fe)
               THEN fe
          ELSE re
     ELSE IF c \in WhiteSpace
     THEN Min({q \in (p + 1)..Len(s) : q = Len(s) \/ CharAt(s, q) \notin WhiteSpace})
     ELSE IF c \in {DQ, SQ} /\ MatchQuoted(s, p, c) # -1 THEN MatchQuoted(s, p, c)
     ELSE p + 1

\* the same by the rules as stated: an identifier is a letter or underscore
\* and the word characters after it, a number is digits with an optional
\* ".digits", wherever they start
StatedLexemeEnd(s, p) ==
  LET c  == CharAt(s, p)
      de == DigitsAfter(s, p)
      fe == DigitsAfter(s, de + 1)
  IN IF c \in {DQ, SQ} /\ MatchQuoted(s, p, c) # -1 THEN MatchQuoted(s, p, c)
     ELSE IF IsWordChar(c) /\ c \notin Digits THEN RunAfter(s, p)
     ELSE IF c \in Digits
     THEN IF de < Len(s) /\ CharAt(s, de) = "." /\ fe > de + 1 THEN fe ELSE de
     ELSE IF c \in WhiteSpace
     THEN Min({q \in (p + 1)..Len(s) : q = Len(s) \/ CharAt(s, q) \notin WhiteSpace})
     ELSE p + 1

\* C18 as stated: every lexeme is the one the stated rules take at its
\* position, so that 2if is the number 2 followed by the identifier if.
C18_AsStated ==
  TokDone =>
    /\ \A k \in 1..Len(tokens) :
         TokenEnd(k) = StatedLexemeEnd(CodePart(line, commentAt), TokenStart(k))
    /\ line = <<"2", "i", "f">> => tokens = << <<"2">>, <<"i", "f">> >>

\* C18: identifiers and numbers are taken only as whole runs of word
\* characters: every lexeme ends where LexemeEnd says, 2if is the three
\* lexemes 2, i, f and 1.5 is one numeric lexeme.
C18_WholeWords ==
  TokDone =>
    /\ \A k \in 1..Len(tokens) :
         TokenEnd(k) = LexemeEnd(CodePart(line, commentAt), TokenStart(k))
    /\ line = <<"2", "i", "f">> => tokens = << <<"2">>, <<"i">>, <<"f">> >>
    /\ line = <<"1", ".", "5">> => rendered = <<Span(line, "number")>>

\* 2if has been tokenized
C18_Witness ==
  /\ TokDone /\ line = <<"2", "i", "f">>
  /\ Kinds(rendered) = <<"number", "plain", "plain">>

----------------------------------------------------------------------------
(* Quoted runs *)

\* the closing quote of the quoted run that opens at p: the first quote of
\* the same kind after p with an even number of backslashes right before it
ClosingQuotes(s, p) ==
  {e \in (p + 1)..(Len(s) - 1) :
     CharAt(s, e) = CharAt(s, p) /\ BackslashRun(s, e) % 2 = 0}

----------------------------------------------------------------------------
(* Inline rendering (RichText) *)

RichDone == rpc = "done"

\* the source text a node stands for: a code node is its text between backticks
NodeSource(n) == IF n.tag = "code" THEN <<BT>> \o n.text \o <<BT>> ELSE n.text

\* C11: the nodes RichText returns alternate plain, code, plain, ... starting
\* and ending with plain; concatenating them in order, every code node wrapped
\* in backticks, gives back the text; "usa `IDLE` y guarda" gives plain "usa ",
\* code "IDLE", plain " y guarda".
C11_Segments ==
  RichDone =>
    /\ Len(nodes) % 2 = 1
    /\ \A k \in 1..Len(nodes) : nodes[k].tag = (IF k % 2 = 1 THEN "span" ELSE "code")
    /\ Concat([k \in 1..Len(nodes) |-> NodeSource(nodes[k])]) = raw
    /\ raw = TextUsaIdle =>
         nodes = << [tag |-> "span", text |-> <<"u", "s", "a", " ">>],
                    [tag |-> "code", text |-> <<"I", "D", "L", "E">>],
                    [tag |-> "span", text |-> <<" ", "y", " ", "g", "u", "a", "r", "d", "a">>] >>

\* a text with two inline codes has been rendered
C11_Witness ==
  /\ RichDone
  /\ Len(nodes) = 5
  /\ nodes[2].text # <<>> /\ nodes[4].text # <<>>

----------------------------------------------------------------------------
(* normalize *)

NormDone == npc = "done"

InCombiningRange(ch) == CodePoint(ch) >= CombiningFirst /\ CodePoint(ch) <= CombiningLast

\* the same letter in the other case, for the letters of the tables
SwapCase(ch) ==
  IF ch \in Range(UpperLetters) THEN LowerLetters[CHOOSE i \in 1..26 : UpperLetters[i] = ch]
  ELSE IF ch \in Range(LowerLetters) THEN UpperLetters[CHOOSE i \in 1..26 : LowerLetters[i] = ch]
  ELSE IF \E a \in Accents : a.upper = ch THEN (CHOOSE a \in Accents : a.upper = ch).lower
  ELSE IF \E a \in Accents : a.lower = ch THEN (CHOOSE a \in Accents : a.lower = ch).upper
  ELSE ch

\* the letter without its accent, in the same case
Unaccent(ch) ==
  IF \E a \in Accents : a.lower = ch THEN (CHOOSE a \in Accents : a.lower = ch).base
  ELSE IF \E a \in Accents : a.upper = ch
  THEN SwapCase((CHOOSE a \in Accents : a.upper = ch).base)
  ELSE ch

Without(s, i) == SubSeq(s, 1, i - 1) \o SubSeq(s, i + 1, Len(s))

InsertAfter(s, i, ch) == SubSeq(s, 1, i) \o <<ch>> \o SubSeq(s, i + 1, Len(s))

\* the strings that differ from s in the case of one letter
CaseVariants(s) == {[s EXCEPT ![i] = SwapCase(s[i])] : i \in 1..Len(s)}

\* the strings that differ from s in one diacritic: an accented letter
\* replaced by its base letter, or a combining mark of the range removed or added
DiacriticVariants(s) ==
  {[s EXCEPT ![i] = Unaccent(s[i])] : i \in 1..Len(s)}
    \cup {Without(s, i) : i \in {k \in 1..Len(s) : InCombiningRange(s[k])}}
    \cup {InsertAfter(s, i, "U+0301") : i \in 0..Len(s)}

\* the strings that differ from s in one white space character
SpacingVariants(s) ==
  {Without(s, i) : i \in {k \in 1..Len(s) : IsSpace(s[k])}}
    \cup {InsertAfter(s, i, " ") : i \in 0..Len(s)}

\* a character the loop must keep: one that stays outside the range after
\* decomposition (a precomposed letter keeps its base)
Survives(ch) == ~InCombiningRange(ch)

\* C14: what normalize returns holds no code point of U+0300..U+036F and is in
\* lower case; every character of the argument that is not a mark of that
\* range leaves exactly one character (nothing else is removed); a string
\* that differs in the case of a letter or in a diacritic normalizes to the
\* same string; the white space comes out unchanged, so a string with one
\* white space character more or fewer normalizes to a different string.
C14_Normalize ==
  NormDone =>
    /\ \A i \in 1..Len(normOut) : ~InCombiningRange(normOut[i])
    /\ \A i \in 1..Len(normOut) :
         normOut[i] \notin Range(UpperLetters) \cup {a.upper : a \in Accents}
    /\ Len(normOut) = Len(SelectSeq(str, Survives))
    /\ \A v \in CaseVariants(str) \cup DiacriticVariants(str) : normalize(v) = normOut
    /\ SelectSeq(normOut, IsSpace) = SelectSeq(str, IsSpace)
    /\ \A v \in SpacingVariants(str) : normalize(v) # normOut

\* a capital accented letter, a space and a separate combining mark have
\* been normalized
C14_Witness ==
  /\ NormDone
  /\ str = <<"U+00C1", " ", "U+0301">>
  /\ normOut = <<"a", " ">>

----------------------------------------------------------------------------
(* Colour tables *)

TableDone == tbpc = "done"

\* the enumeration of colour names and their display-colour identifiers
ColourTable ==
  { << <<"n", "e", "g", "r", "o">>, "text-slate-900" >>,
    << <<"n", "a", "r", "a", "n", "j", "a">>, "text-orange-500" >>,
    << <<"a", "z", "u", "l">>, "text-blue-500" >>,
    << <<"m", "o", "r", "a", "d", "o">>, "text-violet-600" >>,
    << <<"r", "o", "j", "o", " ", "o", "s", "c", "u", "r", "o">>, "text-red-800" >>,
    << <<"r", "o", "j", "o", " ", "c", "l", "a", "r", "o">>, "text-red-500" >>,
    << <<"v", "e", "r", "d", "e">>, "text-emerald-600" >> }

DefaultColour == "text-slate-900"

\* the identifier the enumeration gives an already normalized text
ColourOfNormalized(n) ==
  IF \E e \in ColourTable : e[1] = n
  THEN (CHOOSE e \in ColourTable : e[1] = n)[2]
  ELSE DefaultColour

\* the first header cell, normalized, contains "color"
HeaderSaysColor ==
  /\ headers # <<>>
  /\ \E i \in 1..(Len(normalize(headers[1])) - 4) :
       SubSeq(normalize(headers[1]), i, i + 4) = <<"c", "o", "l", "o", "r">>

\* C12: in a table whose first header cell, normalized, contains "color", the
\* first cell of every row is shown with the identifier its normalized text
\* has in the enumeration of the seven names, whose identifiers are pairwise
\* distinct, and with the default identifier when it is no such name.
C12_ColorTable ==
  /\ Cardinality({e[2] : e \in ColourTable}) = 7
  /\ (TableDone /\ HeaderSaysColor) =>
       \A r \in {k \in 1..Len(rows) : rows[k] # <<>>} :
         /\ cells[r][1].className = ColourOfNormalized(normalize(rows[r][1]))
         /\ cells[r][1].children = <<[tag |-> "text", text |-> rows[r][1]]>>

\* a colour table with the rows "Naranja" and "gris" has been rendered
C12_Witness ==
  /\ TableDone /\ HeaderSaysColor
  /\ Len(rows) = 2 /\ rows[1] # <<>> /\ rows[2] # <<>>
  /\ rows[1][1] = <<"N", "a", "r", "a", "n", "j", "a">> /\ cells[1][1].className = "text-orange-500"
  /\ rows[2][1] = <<"g", "r", "i", "s">> /\ cells[2][1].className = DefaultColour

\* the identifier shown for the first cells whose text is name, in a colour table
ShownFor(name) ==
  {cells[r][1].className : r \in {k \in 1..Len(rows) : rows[k] # <<>> /\ rows[k][1] = name}}

\* C13 as stated: "Rojo Oscuro" and "rojo   oscuro" are both shown with the
\* identifier of "rojo oscuro".
C13_AsStated ==
  (TableDone /\ HeaderSaysColor) =>
    /\ ShownFor(TextRojoOscuroCaps) \subseteq {"text-red-800"}
    /\ ShownFor(TextRojoOscuroSpaces) \subseteq {"text-red-800"}

\* C13: "Rojo Oscuro" is shown with the identifier of "rojo oscuro"; "rojo
\* oscuro" written with three spaces is no name of the enumeration and is
\* shown with the default identifier.
C13_CaseOnly ==
  (TableDone /\ HeaderSaysColor) =>
    /\ ShownFor(<<"r", "o", "j", "o", " ", "o", "s", "c", "u", "r", "o">>) \subseteq {"text-red-800"}
    /\ ShownFor(TextRojoOscuroCaps) \subseteq {"text-red-800"}
    /\ ShownFor(TextRojoOscuroSpaces) \subseteq {DefaultColour}

\* the three spellings have been rendered as first cells of colour tables
C13_Witness ==
  /\ TableDone /\ HeaderSaysColor
  /\ Len(rows) = 2 /\ rows[1] # <<>> /\ rows[2] # <<>>
  /\ rows[1][1] = TextRojoOscuroCaps /\ cells[1][1].className = "text-red-800"
  /\ rows[2][1] = TextRojoOscuroSpaces /\ cells[2][1].className = DefaultColour

----------------------------------------------------------------------------
(* Rendering of the sections *)

Rendered == pc = "rendered"

IsUnknownBlock(b) == ~IsNullBlock(b) /\ b.type \notin KnownTypes

\* the block with a recognized non-heading type in place of an unknown one
AsParagraph(b) == IF IsUnknownBlock(b) THEN [type |-> "p", text |-> b.text] ELSE b

\* C15: renderBlock returns no element for a block of an unknown variant and
\* an element for every block of a known one; the sections, and the element
\* of every other block (its place, its key, its content), are those of the
\* same lesson with a paragraph in place of each unknown block.
C15_UnknownSkipped ==
  Rendered =>
    LET alt     == [k \in 1..Len(blocks) |-> AsParagraph(blocks[k])]
        altSecs == SectionsAfter(alt, 1, <<>>, 0)
    IN /\ sections = SectionsAfter(blocks, 1, <<>>, 0)
       /\ view.root = "div"
       /\ Len(view.cards) = Len(sections)
       /\ Len(altSecs) = Len(sections)
       /\ \A i \in 1..Len(sections) :
            /\ altSecs[i].title = sections[i].title
            /\ view.cards[i].title = sections[i].title
            /\ altSecs[i].blocks = [j \in 1..Len(sections[i].blocks) |->
                                     AsParagraph(sections[i].blocks[j])]
            /\ Len(view.cards[i].children) = Len(sections[i].blocks)
            /\ \A j \in 1..Len(sections[i].blocks) :
                 IF IsUnknownBlock(sections[i].blocks[j])
                 THEN view.cards[i].children[j] = NoElement
                 ELSE /\ view.cards[i].children[j] # NoElement
                      /\ view.cards[i].children[j] = Card(altSecs[i], i).children[j]

\* a lesson with an unknown block between a heading and a paragraph has been
\* rendered: no element for the unknown block, the paragraph second in its card
C15_Witness ==
  /\ Rendered
  /\ Len(blocks) = 3
  /\ blocks[1] = Heading(TextTema) /\ IsUnknownBlock(blocks[2]) /\ blocks[3].type = "p"
  /\ view.cards[1].children[1] = NoElement
  /\ view.cards[1].children[2].el = "p" /\ view.cards[1].children[2].key = 1

\* C16: when the block sequence is absent or empty, TopicBlocks returns
\* null: no section is built and nothing is rendered; the render ends there.
C16_EmptyInput ==
  ((~isArray \/ blocks = <<>>) /\ pc \notin {"idle", "start"}) =>
    /\ pc = "null"
    /\ sections = <<>>
    /\ view = NullView

\* TopicBlocks has returned null for an empty array
C16_Witness ==
  /\ pc = "null" /\ isArray /\ blocks = <<>>
  /\ view = NullView

----------------------------------------------------------------------------
(* sortCourses *)

SortDone == spc = "done"

InConstruction(c) == c.inConstruction # "false"

\* dictionary order of two titles, letter by letter without regard to case
\* or accent: x is a prefix of y, or x has the smaller letter where they
\* first differ
TitleLeq(x, y) ==
  LET kx   == [i \in 1..Len(x) |-> CollationRank(x[i])]
      ky   == [i \in 1..Len(y) |-> CollationRank(y[i])]
      diff == {i \in 1..Min({Len(kx), Len(ky)}) : kx[i] # ky[i]}
  IN IF diff = {} THEN Len(kx) <= Len(ky) ELSE kx[Min(diff)] < ky[Min(diff)]

SortedAsClaimed ==
  /\ Len(sorted) = Len(list)
  /\ {sorted[i] : i \in 1..Len(sorted)} = {list[i] : i \in 1..Len(list)}
  /\ \A i, j \in 1..Len(sorted) :
       i < j =>
         /\ ~(InConstruction(sorted[i]) /\ ~InConstruction(sorted[j]))
         /\ InConstruction(sorted[i]) = InConstruction(sorted[j])
              => TitleLeq(sorted[i].title, sorted[j].title)

\* C17: what sortCourses returns is a permutation of its argument with every
\* course not in construction (field exactly false) before every course in
\* construction and, inside each group, the titles in ascending order; the
\* argument list is never changed.
C17_SortCourses == [](SortDone => SortedAsClaimed) /\ [][list' = list]_vars

\* a course without the field came back behind a course whose field is false
\* that followed it in the argument
C17_Witness ==
  /\ SortDone
  /\ Len(list) = 2
  /\ list[1].inConstruction = "undefined" /\ list[2].inConstruction = "false"
  /\ sorted = <<list[2], list[1]>>
  /\ TitleLeq(list[1].title, list[2].title) /\ list[1].title # list[2].title

----------------------------------------------------------------------------
(* Code blocks *)

CodeDone == cpc = "done"

Count(s, ch) == Cardinality({i \in 1..Len(s) : s[i] = ch})

\* the lines joined again with a line feed between them
RECURSIVE JoinLines(_)
JoinLines(ls) ==
  IF Len(ls) = 1 THEN ls[1] ELSE ls[1] \o <<LF>> \o JoinLines(Tail(ls))

\* the lexemes of a code part, from position p on
RECURSIVE LexemesFrom(_, _)
LexemesFrom(s, p) ==
  IF MatchStarts(s, p) = {} THEN <<>>
  ELSE <<Slice(s, Min(MatchStarts(s, p)), MatchAt(s, Min(MatchStarts(s, p))))>>
         \o LexemesFrom(s, MatchAt(s, Min(MatchStarts(s, p))))

\* where the comment of a line starts when the line is read on its own, with
\* no quote open and no escape pending at its first character: -1 for none
OwnCommentAt(l) == IF HashStarts(l) = {} THEN -1 ELSE Min(HashStarts(l))

\* the spans of a line read on its own
OwnSpans(l) ==
  LET toks == LexemesFrom(CodePart(l, OwnCommentAt(l)), 0)
      code == [k \in 1..Len(toks) |-> Span(toks[k], Kind(toks[k]))]
  IN IF OwnCommentAt(l) = -1 THEN code
     ELSE Append(code, Span(CommentPart(l, OwnCommentAt(l)), "comment"))

\* C20: the lines of a code block are its text without carriage returns, cut
\* at every line feed; every call of the tokenizer starts with no quote open
\* and no escape pending, and the spans of every line are those of that line
\* read on its own: a '#' starts a comment exactly when the line's own
\* quotes leave it outside, whatever the lines before it hold.
C20_LinesIndependent ==
  /\ cpc \in {"map", "done"} =>
       /\ Len(lines) = Count(cbText, LF) + 1
       /\ JoinLines(lines) = SelectSeq(cbText, LAMBDA ch : ch # "\r")
       /\ \A i \in 1..Len(lines) : Count(lines[i], LF) = 0
  /\ (cpc = "map" /\ tpc = "scan" /\ ti = 0) =>
       ~inSingle /\ ~inDouble /\ ~escaped /\ commentAt = -1
  /\ CodeDone =>
       /\ Len(lineSpans) = Len(lines)
       /\ \A i \in 1..Len(lines) : lineSpans[i] = OwnSpans(lines[i])

\* a block whose first line leaves a quote open or ends in a backslash and
\* whose second line is a comment has been rendered
C20_Witness ==
  /\ CodeDone
  /\ Len(lines) = 2
  /\ lines[1] \in {<<SQ>>, <<DQ>>, <<BS>>}
  /\ lines[2] # <<>> /\ lines[2][1] = "#"
  /\ lineSpans[2] = <<Span(lines[2], "comment")>>

----------------------------------------------------------------------------
(* Inline rendering: every backtick, unmatched backticks *)

\* the chunks of s between consecutive backticks
RECURSIVE ChunksAtBackticks(_)
ChunksAtBackticks(s) ==
  IF IndexOf(s, BT, 0) = -1 THEN <<s>>
  ELSE <<Slice(s, 0, IndexOf(s, BT, 0))>>
         \o ChunksAtBackticks(SliceFrom(s, IndexOf(s, BT, 0) + 1))

\* chunk 0 plain, chunk 1 code, chunk 2 plain, ...
StatedNodes(s) ==
  [k \in 1..Len(ChunksAtBackticks(s)) |->
     [tag |-> IF (k - 1) % 2 = 1 THEN "code" ELSE "span", text |-> ChunksAtBackticks(s)[k]]]

\* no chunk of odd index is empty: no opening backtick is directly followed
\* by its closing one
NoEmptyCode(s) ==
  \A k \in 1..Len(ChunksAtBackticks(s)) : (k - 1) % 2 = 1 => ChunksAtBackticks(s)[k] # <<>>

EndsWith(s, t) == Len(s) >= Len(t) /\ SubSeq(s, Len(s) - Len(t) + 1, Len(s)) = t

\* C22: RichText returns nodes for every text; when the text has an odd
\* number of backticks, what follows its last backtick is the end of the
\* last node, which is a plain span and not a code.
C22_Dangling ==
  RichDone =>
    /\ Len(nodes) >= 1
    /\ Count(raw, BT) % 2 = 1 =>
         /\ nodes[Len(nodes)].tag = "span"
         /\ EndsWith(nodes[Len(nodes)].text,
                     SliceFrom(raw, Max({i \in 1..Len(raw) : raw[i] = BT})))

\* a text with a code and then an unmatched backtick followed by text has
\* been rendered
C22_Witness ==
  /\ RichDone
  /\ Count(raw, BT) = 3
  /\ raw[Len(raw)] # BT
  /\ Len(nodes) = 3 /\ nodes[2].text # <<>>

----------------------------------------------------------------------------
(* Tables: the cells that are not coloured *)

\* C23: the rendered table has a cell for every cell of every row, whatever
\* the length of the row; every cell of column index 1 or higher, and every
\* cell of a table whose first header cell, normalized, does not contain
\* "color" (a table without headers included), is the plain cell holding
\* the inline rendering of its text, whatever the text is.
C23_OtherCellsPlain ==
  TableDone =>
    /\ Len(cells) = Len(rows)
    /\ \A r \in 1..Len(rows) :
         /\ Len(cells[r]) = Len(rows[r])
         /\ \A c \in 1..Len(rows[r]) :
              (c >= 2 \/ ~HeaderSaysColor) =>
                cells[r][c] = [className |-> "text-muted-foreground",
                               children  |-> RichNodes(rows[r][c])]

\* a colour table with a row of three cells whose last cell is a colour name,
\* and a table without headers whose first cell is a colour name, have been
\* rendered with those cells plain
C23_Witness ==
  /\ TableDone
  /\ Len(rows) = 2 /\ Len(rows[1]) = 3 /\ Len(rows[2]) = 1
  /\ rows[1][3] = ColorNames[3]
  /\ cells[1][3].className = "text-muted-foreground"
  /\ \/ HeaderSaysColor /\ cells[2][1].className = "text-emerald-600"
     \/ headers = <<>> /\ cells[2][1].className = "text-muted-foreground"

----------------------------------------------------------------------------
(* Display requests *)

\* C24: no step of sectionizing, rendering or tokenizing changes the block
\* sequence, the text of a code block or the keyword and builtin
\* vocabularies; whenever a display has finished, the first or a repeated
\* one, the sections, the returned cards and the spans of every code line
\* are the same function of the input.
C24_Deterministic ==
  /\ [][/\ blocks' = blocks /\ isArray' = isArray /\ cbText' = cbText
        /\ keywords' = keywords /\ builtins' = builtins]_vars
  /\ [](/\ keywords = PY_KEYWORDS /\ builtins = PY_BUILTINS
        /\ pc \in {"done", "rendered"} => sections = SectionsAfter(blocks, 1, <<>>, 0)
        /\ Rendered =>
             view = [root |-> "div",
                     cards |-> [i \in 1..Len(SectionsAfter(blocks, 1, <<>>, 0)) |->
                                  Card(SectionsAfter(blocks, 1, <<>>, 0)[i], i)]]
        /\ pc = "null" => view = NullView /\ ReturnsNull(blocks, isArray)
        /\ CodeDone =>
             lineSpans = [i \in 1..Len(SplitLines(Cleaned(cbText))) |->
                            OwnSpans(SplitLines(Cleaned(cbText))[i])])

\* a lesson with a titled section after its first one, or a code block with
\* a comment line, has been displayed a second time
C24_Witness ==
  /\ again
  /\ \/ Rendered /\ Len(sections) >= 2 /\ sections[2].blocks # <<>>
     \/ CodeDone /\ Len(lineSpans) = 2 /\ Len(lineSpans[2]) >= 1

----------------------------------------------------------------------------
(* Sub-headings *)

\* the positions of the '.' characters of s
DotsOf(s) == {i \in 1..Len(s) : s[i] = "."}

\* the trimmed text has at least two '.', a non-empty run of digits before
\* the first and a non-empty run of digits between the first and the second
ClaimedSubHeading(t) ==
  LET s == Trim(t)
  IN /\ Cardinality(DotsOf(s)) >= 2
     /\ LET f == Min(DotsOf(s))
            g == Min(DotsOf(s) \ {Min(DotsOf(s))})
        IN /\ f > 1 /\ \A i \in 1..(f - 1) : s[i] \in Digits
           /\ g > f + 1 /\ \A i \in (f + 1)..(g - 1) : s[i] \in Digits

\* a numbered heading with a single dot: digits, the only '.', more text
SingleDotNumbered(t) ==
  LET s == Trim(t)
  IN /\ Cardinality(DotsOf(s)) = 1
     /\ Min(DotsOf(s)) > 1 /\ Min(DotsOf(s)) < Len(s)
     /\ \A i \in 1..(Min(DotsOf(s)) - 1) : s[i] \in Digits

\* C25: isSubHeading is true of a heading text exactly when the trimmed text
\* has at least two '.', a non-empty run of digits before the first and a
\* non-empty run of digits between the first and the second; such a heading
\* goes into a block list, and a numbered heading with a single dot, such as
\* "1. ¿Qué", is no sub-heading and starts a section.
C25_SubHeading ==
  /\ \A k \in 1..Len(blocks) :
       IsHeadingBlock(blocks[k]) =>
         (isSubHeading(blocks[k].text) <=> ClaimedSubHeading(blocks[k].text))
  /\ SectDone =>
       \A k \in 1..Len(blocks) :
         IsHeadingBlock(blocks[k]) =>
           /\ ClaimedSubHeading(blocks[k].text) => PlacedAsSubHeading(k)
           /\ SingleDotNumbered(blocks[k].text) =>
                ~isSubHeading(blocks[k].text) /\ PlacedAsTopLevel(k)

\* "1. ¿Qué" after "Tema 4" started the second section
C25_Witness ==
  /\ SectDone
  /\ blocks = <<Heading(TextTema), Heading(<<"1", ".", " ", "U+00BF", "Q", "u", "U+00E9">>)>>
  /\ Len(sections) = 2
  /\ sections[2].title = <<"1", ".", " ", "U+00BF", "Q", "u", "U+00E9">>

----------------------------------------------------------------------------
(* Number of sections *)

\* C26: for a sequence with at least one block, the number of sections is
\* the number of top-level headings, plus one when the first block is no
\* top-level heading; whenever the loop adds a section, either the block
\* visited is a top-level heading that gives the section its title, or the
\* section is anonymous and the first one; so every section after the first
\* carries the text of the top-level heading that started it.
C26_SectionCount ==
  /\ [][(pc = "loop" /\ Len(sections') > Len(sections)) =>
          /\ Len(sections') = Len(sections) + 1
          /\ \/ IsTopLevel(blocks[bi]) /\ Last(sections').title = blocks[bi].text
             \/ ~IsTopLevel(blocks[bi]) /\ sections = <<>> /\ Last(sections').title = <<>>]_vars
  /\ []((SectDone /\ NonNull(blocks) # <<>>) =>
          /\ Len(sections) = Len(TopLevelTexts(blocks)) + (IF AnonFirst(blocks) THEN 1 ELSE 0)
          /\ HeadedTitles(sections, AnonFirst(blocks)) = TopLevelTexts(blocks))

\* a paragraph followed by two top-level headings gave three sections
C26_Witness ==
  /\ SectDone /\ Len(blocks) = 3
  /\ ~IsNullBlock(blocks[1]) /\ ~IsHeadingBlock(blocks[1])
  /\ IsTopLevel(blocks[2]) /\ IsTopLevel(blocks[3])
  /\ Len(sections) = 3 /\ sections[1].title = <<>>

----------------------------------------------------------------------------
(* filterCourses *)

FilterDone == fpc = "done"

\* the cycles of a course: its non-empty list of cycles when it has one,
\* otherwise its single cycle, otherwise none
CyclesOf(c) ==
  IF c.cyclesIsArray /\ c.cycles # <<>> THEN Range(c.cycles)
  ELSE IF c.cycle # "none" THEN {c.cycle}
  ELSE {}

\* s holds t as a run of consecutive characters
Holds(s, t) == \E i \in 0..(Len(s) - Len(t)) : \A j \in 1..Len(t) : s[i + j] = t[j]

\* the course belongs to the selected cycle and its normalized title holds
\* the normalized, trimmed query
Wanted(c) ==
  /\ cycle = "all" \/ cycle \in CyclesOf(c)
  /\ Holds(normalize(c.title), Trim(normalize(query)))

\* C30: filterCourses leaves its list as it was and returns, in the order of
\* the list, exactly the courses that belong to the selected cycle (every
\* course for "all") and whose normalized title holds the normalized,
\* trimmed query, which every title does when the query is empty or white
\* space.
C30_FilterCourses ==
  /\ [][courses' = courses]_vars
  /\ [](FilterDone =>
          /\ \E f \in [1..Len(filtered) -> 1..Len(courses)] :
               /\ \A k \in 1..Len(filtered) : filtered[k] = courses[f[k]]
               /\ \A j, k \in 1..Len(filtered) : j < k => f[j] < f[k]
               /\ \A i \in 1..Len(courses) :
                    Wanted(courses[i]) <=> \E k \in 1..Len(filtered) : f[k] = i
          /\ Trim(query) = <<>> =>
               filtered = SelectSeq(courses,
                                    LAMBDA c : cycle = "all" \/ cycle \in CyclesOf(c)))

\* a course with an empty list of cycles and the single cycle DAW was kept
\* for the cycle DAW and a query written with capitals and spaces, and
\* another course was left out
C30_Witness ==
  /\ FilterDone
  /\ cycle = "DAW" /\ query = <<" ", "R", "E", " ">>
  /\ Len(courses) = 2 /\ Len(filtered) = 1
  /\ filtered[1].cyclesIsArray /\ filtered[1].cycles = <<>> /\ filtered[1].cycle = "DAW"

----------------------------------------------------------------------------
(* parseHash *)

\* the hash without a leading '#' and the '/' that may follow it
Cleaned27(h) ==
  IF h = <<>> \/ h[1] # "#" THEN h
  ELSE IF Len(h) >= 2 /\ h[2] = "/" THEN SubSeq(h, 3, Len(h))
  ELSE SubSeq(h, 2, Len(h))

\* the non-empty parts of s between slashes, as pairs of first and last position
PartRuns(s) ==
  { r \in (1..Len(s)) \X (1..Len(s)) :
      /\ r[1] <= r[2]
      /\ \A i \in r[1]..r[2] : s[i] # "/"
      /\ r[1] = 1 \/ s[r[1] - 1] = "/"
      /\ r[2] = Len(s) \/ s[r[2] + 1] = "/" }

\* the non-empty parts of s in their order
Parts27(s) ==
  LET runs == PartRuns(s)
  IN [k \in 1..Cardinality(runs) |->
        LET r == CHOOSE x \in runs : Cardinality({o \in runs : o[1] < x[1]}) = k - 1
        IN SubSeq(s, r[1], r[2])]

\* the part at position k (from 0) of the parts ps, <<>> when there is none
PartAt(ps, k) == IF k < Len(ps) THEN ps[k + 1] ELSE <<>>

\* the parts at positions 0 to 3 are "course", an id, "topic", an id
NamesTopic(ps) ==
  /\ PartAt(ps, 0) = <<"c", "o", "u", "r", "s", "e">>
  /\ PartAt(ps, 1) # <<>>
  /\ PartAt(ps, 2) = <<"t", "o", "p", "i", "c">>
  /\ PartAt(ps, 3) # <<>>

\* part 0 is "course" and part 1 exists
NamesCourse(ps) ==
  /\ PartAt(ps, 0) = <<"c", "o", "u", "r", "s", "e">>
  /\ PartAt(ps, 1) # <<>>

\* C27: parseHash returns for every hash: the view "topic" with parts 1 and
\* 3 as course and topic id exactly when the parts at positions 0 to 3 are
\* "course", an id, "topic", an id; the view "course" with part 1 as course
\* id when part 0 is "course", part 1 exists and the parts name no topic;
\* the view "catalog" in every other case, the empty hash and an unknown
\* first segment included.
C27_ParseHash ==
  apc = "done" =>
    LET ps == Parts27(Cleaned27(hash))
    IN /\ parsed.view \in {"topic", "course", "catalog"}
       /\ parsed.view = "topic" <=> NamesTopic(ps)
       /\ parsed.view = "course" <=> (NamesCourse(ps) /\ ~NamesTopic(ps))
       /\ parsed.view = "catalog" <=> ~NamesCourse(ps)
       /\ parsed.view = "topic" =>
            parsed.courseId = PartAt(ps, 1) /\ parsed.topicId = PartAt(ps, 3)
       /\ parsed.view = "course" => parsed.courseId = PartAt(ps, 1)
       /\ hash \in {<<>>, <<"#">>, <<"#", "/">>} => parsed.view = "catalog"

\* "#/course/p/topic" with no topic id was parsed as the course view of p
C27_Witness ==
  /\ apc = "done"
  /\ hash = <<"#", "/", "c", "o", "u", "r", "s", "e", "/", "p", "/", "t", "o", "p", "i", "c">>
  /\ parsed = [view |-> "course", courseId |-> <<"p">>, topicId |-> <<>>]

----------------------------------------------------------------------------
(* Navigation *)

\* no hashchange event is waiting, the state hash is the location hash and
\* the effect has run on it
Synced == hashEvent = FALSE /\ hash = location /\ parsed = parseHash(hash)

ExistingCourse(cid) == \E i \in 1..Len(COURSES) : COURSES[i].id = cid

ExistingTopic(cid, tid) ==
  \E i \in 1..Len(COURSES) :
    COURSES[i].id = cid /\ \E j \in 1..Len(COURSES[i].topics) : COURSES[i].topics[j] = tid

\* the view the location hash asks for: the topic page when it names an
\* existing course and an existing topic of it, the course home when it
\* names an existing course only, else the catalog
ViewNamed ==
  LET ps == Parts27(Cleaned27(location))
  IN IF ~(NamesCourse(ps) /\ ExistingCourse(PartAt(ps, 1))) THEN "catalog"
     ELSE IF NamesTopic(ps) /\ ExistingTopic(PartAt(ps, 1), PartAt(ps, 3)) THEN "topic"
     ELSE "course"

\* C28: whenever the App has synced with the location hash, after whatever
\* navigation and outside changes of the hash, it shows the topic page
\* exactly when the hash names an existing course and an existing topic of
\* it, the course home when it names an existing course and no existing
\* topic of it, and the catalog when it names no existing course; every
\* run of the effect for a catalog or course view leaves no topic selected.
C28_Views ==
  /\ [][(SyncEffect /\ parsed'.view \in {"catalog", "course"}) => selectedTopicId' = <<>>]_vars
  /\ [](Synced =>
          /\ ShownView = ViewNamed
          /\ parsed.view \in {"catalog", "course"} => selectedTopicId = <<>>)

\* the topic b of course p, which only openTopic and jumpToIndex lead to, is
\* shown after the App has synced
C28_Witness ==
  /\ Synced
  /\ location = <<"#", "/", "c", "o", "u", "r", "s", "e", "/", "p", "/", "t", "o", "p", "i", "c", "/", "b">>
  /\ ShownView = "topic"

\* C29: with no course selected, openTopic, backToCourse and jumpToIndex
\* leave the location hash as it is; with a course and no topic selected,
\* jumpToIndex leaves the hash as it is and changes nothing but the card
\* scrolled to; with a course and a topic selected, jumpToIndex sets the
\* hash to the topic route of the selected course for the topic chosen.
C29_Handlers ==
  [][\A topicId \in {<<"a">>, <<"b">>} :
       /\ (selectedCourseId = <<>>
            /\ (openTopic(topicId) \/ backToCourse \/ jumpToIndex(topicId)))
             => location' = location /\ hashEvent' = hashEvent
       /\ (selectedCourseId # <<>> /\ selectedTopicId = <<>> /\ jumpToIndex(topicId))
             => /\ location' = location /\ hashEvent' = hashEvent
                /\ scrolledTo' \in {scrolledTo, topicId}
                /\ ExistingTopic(selectedCourseId, topicId) => scrolledTo' = topicId
                /\ UNCHANGED <<hash, parsed, selectedCourseId, selectedTopicId>>
       /\ (selectedCourseId # <<>> /\ selectedTopicId # <<>> /\ jumpToIndex(topicId))
             => location' = <<"#", "/", "c", "o", "u", "r", "s", "e", "/">> \o selectedCourseId
                              \o <<"/", "t", "o", "p", "i", "c", "/">> \o topicId]_vars

\* jumpToIndex has scrolled to the card of topic b on the course home of p,
\* and the hash is still the course route
C29_Witness ==
  /\ scrolledTo = <<"b">>
  /\ selectedCourseId = <<"p">> /\ selectedTopicId = <<>>
  /\ location = <<"#", "/", "c", "o", "u", "r", "s", "e", "/", "p">>
  /\ hashEvent = FALSE

====
